---- MODULE Spec2Model ----
(***************************************************************************)
(* A model of the winksock/1 client core of node-hydna (src/index.js):     *)
(* channels, the per-id OpenRequest pipeline and the shared Connection.    *)
(*                                                                         *)
(* The program is single threaded: every handler runs to completion, so    *)
(* every action below is one whole handler (a user call, a next-tick       *)
(* callback, a socket event or one inbound frame).  Handlers are written   *)
(* as operators from a state record S to a state record, composed in the   *)
(* order of the statements of the source.                                  *)
(*                                                                         *)
(* An exception nobody catches (a TypeError, a ReferenceError, a throw)    *)
(* ends the handler where it is raised: the assignments made before it     *)
(* stay, `crashed` records it, and the process ends (node's default for    *)
(* an uncaught exception), so no action is enabled afterwards.             *)
(*                                                                         *)
(* Environment: one authority (all channels use the same host), every      *)
(* Channel object is connected once (as createChannel does) in mode        *)
(* "rw+e", listeners are attached for every event, and a write on a live   *)
(* socket does not throw.  The server answers OPEN frames only: it sends   *)
(* an OPEN response for an id only while an OPEN frame written for that id *)
(* is still unanswered.                                                    *)
(***************************************************************************)
EXTENDS Integers, Sequences, FiniteSets, TLC

\* ------------------------------------------------------------- bounds
NumChans == 3        \* Channel objects the user creates
IoChans == 2         \* Channel objects the user creates where frames are exchanged
NumIds == 2          \* channel ids in use: 1..NumIds
MaxConns == 2        \* Connection objects ever constructed
MaxWrites == 2       \* user write/dispatch calls accepted in a run
MaxInbound == 2      \* data, signal and drain events delivered in a run
MaxWire == 5         \* frames written for one channel before the server stops ending it
MaxChunks == 2       \* chunks one encoded frame is cut into
MaxFrames == 2       \* frames of a stream that is cut into chunks
MaxHops == 6         \* redirect responses one handshake gets

\* ------------------------------------------------- program constants
ALL_CHANNELS == 0
MAX_PAYLOAD_SIZE == 10240
MAX_REDIRECTS == 5
FLAG_ALLOW == 0
FLAG_REDIRECT == 1
FLAG_DENY == 7
FLAG_EMIT == 0
FLAG_END == 1
FLAG_ERROR == 7

Chans == 1..NumChans
Ids == 1..NumIds
Conns == 1..MaxConns

NoErr == "null"                \* a falsy err / message argument
NoSig == [op |-> "NONE", id |-> 0, flag |-> 0, src |-> 0, tag |-> 0, q |-> FALSE]

VARIABLES
  chan,       \* Channel objects
  req,        \* OpenRequest objects; request r is the one created for channel r
  conn,       \* Connection objects
  all,        \* Connection.all[key]      (0 = absent)
  disposed,   \* Connection.disposed[key] (0 = absent)
  nconn,      \* Connection objects constructed so far
  ticks,      \* process.nextTick queue
  wire,       \* per channel: the frames written to a socket for it, in order
  unanswered, \* per connection and id: OPEN frames written and not yet answered
  events,     \* per channel: the events emitted on it, in order
  submitted,  \* per channel: write/dispatch calls accepted so far (the last tag)
  crashed,    \* NoErr, or the uncaught exception that ended the process
  codec,      \* a frame, its bytes on the way to a parser, and what it dispatched
  getsock     \* one call of getSock: its requests and what it called back with

vars == <<chan, req, conn, all, disposed, nconn, ticks, wire, unanswered,
          events, submitted, crashed, codec, getsock>>

\* The state as one record, so that a handler is a function of it.
St ==
  [chan |-> chan, req |-> req, conn |-> conn, all |-> all, disposed |-> disposed,
   nconn |-> nconn, ticks |-> ticks, wire |-> wire, unanswered |-> unanswered,
   events |-> events, submitted |-> submitted, crashed |-> crashed,
   ret |-> 0,            \* ret: what the function called last returned
   thrown |-> NoErr]     \* thrown: the exception the user's call ended with

Commit(S) ==
  /\ chan' = S.chan
  /\ req' = S.req
  /\ conn' = S.conn
  /\ all' = S.all
  /\ disposed' = S.disposed
  /\ nconn' = S.nconn
  /\ ticks' = S.ticks
  /\ wire' = S.wire
  /\ unanswered' = S.unanswered
  /\ events' = S.events
  /\ submitted' = S.submitted
  /\ crashed' = S.crashed
  /\ codec' = codec
  /\ getsock' = getsock

Throw(S, what) == [S EXCEPT !.crashed = what]
Ok(S) == S.crashed = NoErr

Emit(S, c, e) == [S EXCEPT !.events[c] = Append(@, e)]

Ev(name) == [ev |-> name, err |-> NoErr, hadError |-> FALSE, msg |-> NoErr]
ErrorEv(err) == [ev |-> "error", err |-> err, hadError |-> FALSE, msg |-> NoErr]
CloseEv(hadError, msg) == [ev |-> "close", err |-> NoErr, hadError |-> hadError, msg |-> msg]

\* ---------------------------------------------------------- objects
Channel ==
  [id |-> 0, connecting |-> FALSE, closing |-> FALSE, destroyed |-> FALSE,
   conn |-> 0, request |-> 0, writeQueue |-> <<>>, endsig |-> NoSig,
   readable |-> FALSE, writable |-> FALSE, emitable |-> FALSE,
   encoding |-> NoErr,
   onclose |-> 0,        \* onclose: the channel that the user's `close` listener
   oncloseId |-> 0]      \*   connects, and the id it connects it to (0: no listener)

NoRequest ==
  [conn |-> 0, id |-> 0, present |-> FALSE, sent |-> FALSE, destroyed |-> FALSE,
   prev |-> 0, next |-> 0,
   cancelled |-> FALSE]  \* cancelled: cancel() has returned true for it

Connection ==
  [alive |-> FALSE, sock |-> FALSE, handshake |-> "none",
   channels |-> [i \in Ids |-> 0], requests |-> [i \in Ids |-> 0],
   chanRefCount |-> 0, reqRefCount |-> 0, timer |-> FALSE,
   buffer |-> <<>>]      \* the parser's bytes buffer[offset .. length - 1]

DataFrame(id, flag, c, tag) ==
  [op |-> "DATA", id |-> id, flag |-> flag, src |-> c, tag |-> tag, q |-> FALSE]
SignalFrame(id, flag, c, tag) ==
  [op |-> "SIGNAL", id |-> id, flag |-> flag, src |-> c, tag |-> tag, q |-> FALSE]
OpenFrame(r, id) ==
  [op |-> "OPEN", id |-> id, flag |-> 7, src |-> r, tag |-> 0, q |-> FALSE]

\* ------------------------------------------------------------ codec
\* A Buffer is a sequence of bytes; buffer[i] of the source is At(buffer, i).
At(buffer, i) == buffer[i + 1]
\* buffer[i] = v stores the low eight bits of v
Byte(v) == v % 256

\* a | b for non-negative integers
RECURSIVE BitOr(_, _)
BitOr(a, b) ==
  IF a = 0 THEN b
  ELSE IF b = 0 THEN a
  ELSE (IF a % 2 = 1 \/ b % 2 = 1 THEN 1 ELSE 0) + 2 * BitOr(a \div 2, b \div 2)

\* A 32 bit unsigned number as its two 16 bit halves (the numbers of the
\* model checker end at 2^31 - 1).
Wide(n) == [hi |-> n \div 2^16, lo |-> n % 2^16]
Narrow(w) == w.hi * 2^16 + w.lo

\* The body the three toBuffer functions share; op is 0x1, 0x2 or 0x3 and id
\* a 32 bit unsigned number.
\* length: with one byte only
toBufferLowLength(op, id, flag, data) ==
  LET length == 7 + Len(data)
  IN <<0, length % 256,
       Byte(id.hi \div 2^8),                       \* id >>> 24
       Byte(id.hi),                                \* id >>> 16
       Byte((id.hi * 2^8) + (id.lo \div 2^8)),     \* id >>> 8
       id.lo % 256,                                \* id % 256
       Byte(BitOr(op * 2^3, flag))>> \o data

toBuffer(op, id, flag, data) ==
  LET length == 7 + Len(data)
  IN <<Byte(length \div 2^8), length % 256,
       Byte(id.hi \div 2^8),                       \* id >>> 24
       Byte(id.hi),                                \* id >>> 16
       Byte((id.hi * 2^8) + (id.lo \div 2^8)),     \* id >>> 8
       id.lo % 256,                                \* id % 256
       Byte(BitOr(op * 2^3, flag))>> \o data

OpenRequest_toBuffer(id, flag, data) == toBuffer(1, id, flag, data)
DataFrame_toBuffer(id, flag, data) == toBuffer(2, id, flag, data)
SignalFrame_toBuffer(id, flag, data) == toBuffer(3, id, flag, data)

\* (b1 << 16 | b2 << 8 | b3) + (b0 << 24 >>> 0), a 32 bit unsigned number
be32(b0, b1, b2, b3) ==
  LET low == BitOr(BitOr(b1 * 2^16, b2 * 2^8), b3)        \* below 2^24
  IN [hi |-> ((b0 * 2^8) % 2^16) + (low \div 2^16), lo |-> low % 2^16]

\* One turn of the parser's loop `while (offset < length && conn.id)`, up to
\* the switch on op: "break" (wait for more bytes), "bad" (bad packet size),
\* or the packet at the offset.
parsePacket(buffer, offset, length) ==
  IF offset + 2 > length THEN [r |-> "break"]
  ELSE
    LET packetlen == BitOr(At(buffer, offset) * 2^8, At(buffer, offset + 1))
    IN IF packetlen < 7 THEN [r |-> "bad", packetlen |-> packetlen]
       ELSE IF offset + packetlen > length THEN [r |-> "break"]
       ELSE
         LET desc == At(buffer, offset + 6)
         IN [r |-> "packet", packetlen |-> packetlen,
             ch |-> be32(At(buffer, offset + 2), At(buffer, offset + 3),
                         At(buffer, offset + 4), At(buffer, offset + 5)),
             op |-> (((desc \div 2) % 2^4) \div 2^2),
             flag |-> (((desc * 2) % 2^4) \div 2),
             data |-> SubSeq(buffer, offset + 7 + 1, offset + packetlen)]

\* The texts the model's frames carry, as utf8
Texts == {"bye", "NOT_ALLOWED"}
Buffer_from(text) ==
  IF text = "bye" THEN <<98, 121, 101>>
  ELSE <<78, 79, 84, 95, 65, 76, 76, 79, 87, 69, 68>>
\* data.toString("utf8", start, end) of a payload; NoErr stands for the
\* `null` the callers use for an empty payload.
Buffer_toString(data) ==
  IF data = <<>> THEN NoErr
  ELSE IF \E t \in Texts : Buffer_from(t) = data
    THEN CHOOSE t \in Texts : Buffer_from(t) = data
    ELSE "text"
\* The id in the payload of a REDIRECT (processResponse), 0 for a payload
\* that is not of four bytes
redirectContent(data) ==
  IF Len(data) # 4 THEN 0
  ELSE Narrow(be32(At(data, 0), At(data, 1), At(data, 2), At(data, 3)))

\* No frame under way through the codec
NoCodec ==
  [frame |-> <<>>, encoded |-> FALSE, pending |-> <<>>, chunks |-> 0, buffer |-> <<>>,
   out |-> <<>>, bad |-> FALSE,
   stream |-> <<>>]      \* stream: the frames whose bytes are on the way

\* The module after it is loaded: no channel was created yet.
\* getSock before it is called.  redirections is its counter, requesting says
\* that a request of dorequest has not had its response, outcomes are the calls
\* of the callback C, hops the redirect responses received.
NoGetSock ==
  [followRedirects |-> TRUE, protocol |-> NoErr, redirections |-> 1,
   requesting |-> FALSE, hops |-> 0, outcomes |-> <<>>]

Loaded ==
  /\ chan = [c \in Chans |-> Channel]
  /\ req = [r \in Chans |-> NoRequest]
  /\ conn = [k \in Conns |-> Connection]
  /\ all = 0
  /\ disposed = 0
  /\ nconn = 0
  /\ ticks = <<>>
  /\ wire = [c \in Chans |-> <<>>]
  /\ unanswered = [k \in Conns |-> [i \in Ids |-> 0]]
  /\ events = [c \in Chans |-> <<>>]
  /\ submitted = [c \in Chans |-> 0]
  /\ crashed = NoErr

Init == Loaded /\ codec = NoCodec /\ getsock = NoGetSock

\* A call of one function of the source by another: Call(S, a) runs the
\* function a.f on the state S with the arguments in a (defined after the
\* functions).  A function that returns a value leaves it in S.ret.
RECURSIVE Call(_, _)

\* ------------------------------------------------------- Connection
\* setDisposed whose `else` branch leaves the timeout and its listener
Connection_setDisposedKeepTimer(S, k, state) ==
  IF ~S.conn[k].alive \/ ~S.conn[k].sock THEN S
  ELSE IF state
    THEN [S EXCEPT !.conn[k].timer = TRUE, !.disposed = k, !.all = 0]
    ELSE [S EXCEPT !.disposed = 0, !.all = k]

\* Connection.prototype.setDisposed
Connection_setDisposed(S, k, state) ==
  IF ~S.conn[k].alive \/ ~S.conn[k].sock THEN S
  ELSE IF state
    THEN [S EXCEPT !.conn[k].timer = TRUE, !.disposed = k, !.all = 0]
    ELSE [S EXCEPT !.conn[k].timer = FALSE, !.disposed = 0, !.all = k]

\* Connection.prototype.write: the frame goes on the socket if there is one.
Connection_write(S, k, packet) ==
  IF S.conn[k].sock
    THEN LET S1 == [S EXCEPT !.wire[packet.src] = Append(@, packet @@ [k |-> k])]
         IN IF packet.op = "OPEN"
              THEN [S1 EXCEPT !.unanswered[k][packet.id] = @ + 1]
              ELSE S1
    ELSE S

\* ---------------------------------------------------------- Channel
\* chan.emit("close", hadError, message): the event, then the user's listener,
\* which calls connect() on a channel it has created.
emit_close(S, c, hadError, message) ==
  LET S1 == Emit(S, c, CloseEv(hadError, message))
      d == S.chan[c].onclose
  IN IF d # 0 /\ S1.chan[d].id = 0 /\ ~S1.chan[d].destroyed /\ ~S1.chan[d].connecting
       THEN Call(S1, [f |-> "Channel_connect", c |-> d, id |-> S.chan[c].oncloseId])
       ELSE S1

\* finalizeDestroyChannel without its `if (chan.destroyed) return`
finalizeDestroyChannelAgain(S, c, err, message) ==
  LET id == S.chan[c].id
      k == S.chan[c].conn
      S1 == IF k # 0 /\ id # 0 /\ S.conn[k].channels[id] = c
              THEN LET T == [S EXCEPT !.conn[k].channels[id] = 0,
                                      !.conn[k].chanRefCount = @ - 1]
                   IN IF T.conn[k].chanRefCount = 0 /\ T.conn[k].reqRefCount = 0
                        THEN Connection_setDisposed(T, k, TRUE)
                        ELSE T
              ELSE S
      S2 == [S1 EXCEPT !.chan[c] = [@ EXCEPT !.id = 0, !.readable = FALSE,
                                             !.writable = FALSE, !.emitable = FALSE,
                                             !.destroyed = TRUE, !.request = 0,
                                             !.conn = 0]]
      S3 == IF err # NoErr THEN Emit(S2, c, ErrorEv(err)) ELSE S2
  IN Emit(S3, c, CloseEv(err # NoErr, message))

\* finalizeDestroyChannel(chan, err, message).  The assignment to
\* chan._writequeue (lower case q) sets a property nothing reads: _writeQueue
\* and _connecting are left as they are.
finalizeDestroyChannel(S, c, err, message) ==
  IF S.chan[c].destroyed THEN S
  ELSE
    LET id == S.chan[c].id
        k == S.chan[c].conn
        S1 == IF k # 0 /\ id # 0 /\ S.conn[k].channels[id] = c
                THEN LET T == [S EXCEPT !.conn[k].channels[id] = 0,
                                        !.conn[k].chanRefCount = @ - 1]
                     IN IF T.conn[k].chanRefCount = 0 /\ T.conn[k].reqRefCount = 0
                          THEN Connection_setDisposed(T, k, TRUE)
                          ELSE T
                ELSE S
        S2 == [S1 EXCEPT !.chan[c] = [@ EXCEPT !.id = 0, !.readable = FALSE,
                                               !.writable = FALSE, !.emitable = FALSE,
                                               !.destroyed = TRUE, !.request = 0,
                                               !.conn = 0]]
        S3 == IF err # NoErr THEN Emit(S2, c, ErrorEv(err)) ELSE S2
    IN emit_close(S3, c, err # NoErr, message)

\* ------------------------------------------------------ OpenRequest
\* OpenRequest.prototype.destroy; request.onclose (Connection.prototype.open)
\* finalizes the channel only when there is an error.
OpenRequest_destroy(S, r, err) ==
  IF S.req[r].destroyed THEN S
  ELSE
    LET k == S.req[r].conn
        S1 == IF k # 0 /\ S.conn[k].alive
                THEN LET T == [S EXCEPT !.conn[k].reqRefCount = @ - 1]
                     IN IF T.conn[k].reqRefCount = 0 /\ T.conn[k].chanRefCount = 0
                          THEN Connection_setDisposed(T, k, TRUE)
                          ELSE T
                ELSE S
        S2 == IF err # NoErr
                THEN Call(S1, [f |-> "finalizeDestroyChannel", c |-> r, err |-> err,
                               message |-> NoErr])
                ELSE S1
    IN [S2 EXCEPT !.req[r].destroyed = TRUE]

\* OpenRequest.prototype.destroyAndNext: the tail of the chain first.
OpenRequest_destroyAndNext(S, r, err) ==
  LET S1 == IF S.req[r].next # 0
              THEN Call(S, [f |-> "OpenRequest_destroyAndNext", r |-> S.req[r].next,
                            err |-> err])
              ELSE S
  IN Call(S1, [f |-> "OpenRequest_destroy", r |-> r, err |-> err])

\* OpenRequest.prototype.send: schedules the write for the next tick.
OpenRequest_send(S, r) ==
  IF S.req[r].present THEN S
  ELSE
    LET S1 == [S EXCEPT !.req[r].present = TRUE]
    IN IF S1.req[r].sent
         THEN Throw(S1, "OpenRequest is already sent")
         ELSE [S1 EXCEPT !.ticks = Append(@, [kind |-> "send", who |-> r])]

\* OpenRequest.prototype.cancel; S.ret is what it returns.  `prev` is never
\* set to a request, so a request that is not the head of its queue stays
\* linked.
OpenRequest_cancel(S, r) ==
  IF S.req[r].sent THEN [S EXCEPT !.ret = FALSE]
  ELSE
    LET k == S.req[r].conn
        id == S.req[r].id
        S1 == IF S.conn[k].requests[id] = r
                THEN [S EXCEPT !.conn[k].requests[id] = S.req[r].next]
                ELSE IF S.req[r].prev # 0
                  THEN [S EXCEPT !.req[r].prev = S.req[r].next]
                  ELSE S
    IN [Call(S1, [f |-> "OpenRequest_destroy", r |-> r, err |-> NoErr])
          EXCEPT !.ret = TRUE, !.req[r].cancelled = TRUE]

\* ------------------------------------------- Channel, continued
\* _writeOut without its `else if (this._connecting)` branch
Channel_writeOutAtOnce(S, c, packet) ==
  IF S.chan[c].writeQueue # <<>>
    THEN [S EXCEPT !.chan[c].writeQueue = Append(@, [packet EXCEPT !.q = TRUE])]
  ELSE IF S.chan[c].conn # 0
    THEN Connection_write(S, S.chan[c].conn, packet)
  ELSE Call(S, [f |-> "Channel_destroy", c |-> c, err |-> "Channel is not writable"])

\* Channel.prototype._writeOut
Channel_writeOut(S, c, packet) ==
  IF S.chan[c].writeQueue # <<>>
    THEN [S EXCEPT !.chan[c].writeQueue = Append(@, [packet EXCEPT !.q = TRUE])]
  ELSE IF S.chan[c].connecting
    THEN [S EXCEPT !.chan[c].writeQueue = <<[packet EXCEPT !.q = TRUE]>>]
  ELSE IF S.chan[c].conn # 0
    THEN Connection_write(S, S.chan[c].conn, packet)
  ELSE Call(S, [f |-> "Channel_destroy", c |-> c, err |-> "Channel is not writable"])

\* Channel.prototype.destroy
Channel_destroy(S, c, err) ==
  IF S.chan[c].destroyed \/ S.chan[c].closing \/ S.chan[c].id = 0 THEN S
  ELSE
    LET S0 == IF S.chan[c].conn = 0
                THEN Call(S, [f |-> "finalizeDestroyChannel", c |-> c, err |-> NoErr,
                              message |-> NoErr])
                ELSE S
        S1 == [S0 EXCEPT !.chan[c] = [@ EXCEPT !.readable = FALSE, !.writable = FALSE,
                                               !.emitable = FALSE, !.closing = TRUE]]
        r == S1.chan[c].request
        try == IF r # 0 /\ S1.chan[c].endsig = NoSig
                 THEN Call(S1, [f |-> "OpenRequest_cancel", r |-> r])
                 ELSE [S1 EXCEPT !.ret = FALSE]
    IN IF try.ret
         THEN Call([try EXCEPT !.chan[c].request = 0],
                   [f |-> "finalizeDestroyChannel", c |-> c, err |-> err, message |-> NoErr])
         ELSE
           LET sig == IF S1.chan[c].endsig # NoSig
                        THEN S1.chan[c].endsig
                        ELSE SignalFrame(S1.chan[c].id, FLAG_END, c, 0)
           IN IF r # 0
                THEN [S1 EXCEPT !.chan[c].endsig = sig]
                ELSE Call(S1, [f |-> "Channel_writeOut", c |-> c, packet |-> sig])

\* The loop of Channel.prototype._open over the queued packets.
RECURSIVE flushQueue(_, _, _, _)
flushQueue(S, c, queue, newid) ==
  IF queue = <<>> THEN S
  ELSE flushQueue(Call(S, [f |-> "Channel_writeOut", c |-> c,
                           packet |-> [Head(queue) EXCEPT !.id = newid]]),
                  c, Tail(queue), newid)

\* Channel.prototype._open(newid); sockFlushed is what sock.write returns.
\* `self` is no variable of _open: reading self._endsig raises.
Channel_open(S, c, newid, sockFlushed) ==
  LET queue == S.chan[c].writeQueue
      k == S.chan[c].conn
      S1 == [S EXCEPT !.chan[c] = [@ EXCEPT !.id = newid, !.connecting = FALSE,
                                            !.writeQueue = <<>>, !.request = 0]]
  IN IF k = 0
       THEN Throw(S1, "TypeError: Cannot read property 'channels' of null")
       ELSE
         LET S2 == [S1 EXCEPT !.conn[k].channels[newid] = c,
                              !.conn[k].chanRefCount = @ + 1]
             S3 == flushQueue(S2, c, queue, newid)
             flushed == queue # <<>> /\ S3.conn[k].sock /\ sockFlushed
         IN IF S3.chan[c].closing
              THEN Throw(S3, "ReferenceError: self is not defined")
              ELSE
                LET S4 == Emit(S3, c, Ev("connect"))
                IN IF flushed THEN Emit(S4, c, Ev("drain")) ELSE S4

\* ------------------------------------------- Connection, continued
\* The loop `for (var chanid in channels)` of Connection.prototype.destroy:
\* integer keys are visited in ascending order, a deleted key is skipped.
RECURSIVE finalizeChannels(_, _, _, _, _)
finalizeChannels(S, k, i, err, message) ==
  IF i > NumIds THEN S
  ELSE
    LET c == S.conn[k].channels[i]
        S1 == IF c # 0
                THEN Call(S, [f |-> "finalizeDestroyChannel", c |-> c, err |-> err,
                              message |-> message])
                ELSE S
    IN finalizeChannels(S1, k, i + 1, err, message)

\* The loop `for (var reqid in requests)` of Connection.prototype.destroy.
RECURSIVE destroyRequests(_, _, _, _)
destroyRequests(S, k, i, err) ==
  IF i > NumIds THEN S
  ELSE
    LET r == S.conn[k].requests[i]
        S1 == IF r # 0
                THEN Call(S, [f |-> "OpenRequest_destroyAndNext", r |-> r, err |-> err])
                ELSE S
    IN destroyRequests(S1, k, i + 1, err)

\* Connection.prototype.destroy(err, message)
Connection_destroy(S, k, err, message) ==
  IF ~S.conn[k].alive THEN S
  ELSE
    LET S1 == [S EXCEPT !.conn[k].alive = FALSE]
        S2 == finalizeChannels(S1, k, 1, err, message)
        S3 == destroyRequests(S2, k, 1, err)
    IN [S3 EXCEPT !.conn[k] = [@ EXCEPT !.channels = [i \in Ids |-> 0],
                                        !.requests = [i \in Ids |-> 0],
                                        !.chanRefCount = 0, !.reqRefCount = 0,
                                        !.sock = FALSE, !.timer = FALSE],
                  !.all = 0, !.disposed = 0,
                  !.unanswered[k] = [i \in Ids |-> 0]]

\* OpenRequest.prototype.processResponse(flag, data, start, end).
\* payload: for REDIRECT the id in a 4 byte payload, or 0 for a payload of
\* another length; for DENY the reason text, or NoErr for an empty payload.
OpenRequest_processResponse(S, r, flag, payload, sockFlushed) ==
  LET k == S.req[r].conn
      id == S.req[r].id
      n == S.req[r].next
      S1 == IF n # 0
              THEN IF flag = FLAG_ALLOW
                     THEN Call(S, [f |-> "OpenRequest_destroyAndNext", r |-> n,
                                   err |-> "Channel is already open"])
                     ELSE OpenRequest_send([S EXCEPT !.req[n].prev = 0,
                                                     !.conn[k].requests[id] = n], n)
              ELSE [S EXCEPT !.conn[k].requests[id] = 0]
      newid == IF flag = FLAG_ALLOW THEN id ELSE payload
  IN IF ~Ok(S1) THEN S1
     ELSE IF flag = FLAG_REDIRECT /\ payload = 0
       THEN Call(S1, [f |-> "Connection_destroy", k |-> k, err |-> "Bad open resp",
                      message |-> NoErr])
     ELSE IF flag = FLAG_ALLOW \/ flag = FLAG_REDIRECT
       THEN LET S2 == Call(S1, [f |-> "Channel_open", c |-> r, newid |-> newid,
                                sockFlushed |-> sockFlushed])
            IN IF Ok(S2)
                 THEN Call(S2, [f |-> "OpenRequest_destroy", r |-> r, err |-> NoErr])
                 ELSE S2
     ELSE Call(S1, [f |-> "OpenRequest_destroy", r |-> r,
                    err |-> IF payload # NoErr THEN payload ELSE "ERR_OPEN_DENIED"])

\* Connection.prototype.processOpen; `sock` is no variable of it.
Connection_processOpen(S, k, id, flag, payload, sockFlushed) ==
  IF S.conn[k].requests[id] = 0
    THEN Throw(S, "ReferenceError: sock is not defined")
    ELSE OpenRequest_processResponse(S, S.conn[k].requests[id], flag, payload, sockFlushed)

\* JSON.parse(message.toString("utf8")) returns (TRUE) or throws (FALSE); of
\* the payloads of the model `1` and `null` are JSON texts.
JSON_parse(data) == data \in {<<49>>, <<110, 117, 108, 108>>}

\* Channel.prototype.ondata
Channel_ondata(S, c, data, flag) ==
  IF S.chan[c].encoding = "json" /\ ~JSON_parse(data)
    THEN Call(S, [f |-> "Channel_destroy", c |-> c, err |-> "SyntaxError"])
    ELSE Emit(S, c, Ev("data"))

\* Channel.prototype.onsignal
Channel_onsignal(S, c) == Emit(S, c, Ev("signal"))

\* The loop of Connection.prototype.processData for ALL_CHANNELS
RECURSIVE dataToAll(_, _, _, _, _)
dataToAll(S, k, i, flag, data) ==
  IF i > NumIds THEN S
  ELSE
    LET c == S.conn[k].channels[i]
        S1 == IF c # 0 /\ S.chan[c].readable THEN Channel_ondata(S, c, data, flag) ELSE S
    IN dataToAll(S1, k, i + 1, flag, data)

\* Connection.prototype.processData
Connection_processData(S, k, id, flag, data) ==
  IF id = ALL_CHANNELS THEN dataToAll(S, k, 1, flag, data)
  ELSE
    LET c == S.conn[k].channels[id]
    IN IF c # 0 /\ S.chan[c].readable THEN Channel_ondata(S, c, data, flag) ELSE S

\* The loop of Connection.prototype.processSignal for EMIT to ALL_CHANNELS
RECURSIVE signalToAll(_, _, _)
signalToAll(S, k, i) ==
  IF i > NumIds THEN S
  ELSE
    LET c == S.conn[k].channels[i]
        S1 == IF c # 0 /\ ~S.chan[c].closing THEN Channel_onsignal(S, c) ELSE S
    IN signalToAll(S1, k, i + 1)

\* processSignal without the END reply to an END or ERROR of the server
Connection_processSignalNoReply(S, k, id, flag, message) ==
  IF flag = FLAG_EMIT
    THEN IF id = ALL_CHANNELS THEN signalToAll(S, k, 1)
         ELSE LET c == S.conn[k].channels[id]
              IN IF c # 0 /\ ~S.chan[c].closing THEN Channel_onsignal(S, c) ELSE S
  ELSE LET err == IF flag = FLAG_END THEN NoErr
                  ELSE IF message # NoErr THEN message ELSE "ERR_UNKNOWN"
           msg == IF flag = FLAG_END THEN message ELSE NoErr
       IN IF id = ALL_CHANNELS
            THEN Call(S, [f |-> "Connection_destroy", k |-> k, err |-> err, message |-> msg])
            ELSE LET c == S.conn[k].channels[id]
                 IN IF c = 0 THEN S
                    ELSE Call(S, [f |-> "finalizeDestroyChannel", c |-> c,
                                  err |-> IF S.chan[c].closing THEN NoErr ELSE err,
                                  message |-> IF S.chan[c].closing THEN NoErr ELSE msg])

\* Connection.prototype.processSignal; message is the payload text or NoErr.
Connection_processSignal(S, k, id, flag, message) ==
  IF flag = FLAG_EMIT
    THEN IF id = ALL_CHANNELS THEN signalToAll(S, k, 1)
         ELSE LET c == S.conn[k].channels[id]
              IN IF c # 0 /\ ~S.chan[c].closing THEN Channel_onsignal(S, c) ELSE S
  ELSE IF flag = FLAG_END \/ flag = FLAG_ERROR
    THEN LET err == IF flag = FLAG_END THEN NoErr
                    ELSE IF message # NoErr THEN message ELSE "ERR_UNKNOWN"
             msg == IF flag = FLAG_END THEN message ELSE NoErr
         IN IF id = ALL_CHANNELS
              THEN Call(S, [f |-> "Connection_destroy", k |-> k, err |-> err,
                            message |-> msg])
              ELSE
                LET c == S.conn[k].channels[id]
                IN IF c = 0 THEN S
                   ELSE IF S.chan[c].closing
                     THEN LET S1 == Call(S, [f |-> "finalizeDestroyChannel", c |-> c,
                                             err |-> NoErr, message |-> NoErr])
                          IN IF S1.conn[k].requests[id] # 0
                               THEN OpenRequest_send(S1, S1.conn[k].requests[id])
                               ELSE S1
                     ELSE Call(Connection_write(S, k, SignalFrame(id, FLAG_END, c, 0)),
                               [f |-> "finalizeDestroyChannel", c |-> c, err |-> err,
                                message |-> msg])
  ELSE Call(S, [f |-> "Connection_destroy", k |-> k,
                err |-> "Server sent an unknown SIGFLAG", message |-> NoErr])

\* The last request of the chain that starts at r (the loop of the constructor).
RECURSIVE lastOf(_, _)
lastOf(S, r) == IF S.req[r].next # 0 THEN lastOf(S, S.req[r].next) ELSE r

\* function OpenRequest(conn, id, flag, data), for channel r
OpenRequest(S, k, r, id) ==
  LET S1 == [S EXCEPT !.req[r] = [NoRequest EXCEPT !.conn = k, !.id = id]]
      h == S.conn[k].requests[id]
      S2 == IF h # 0
              THEN [S1 EXCEPT !.req[lastOf(S, h)].next = r]
              ELSE [S1 EXCEPT !.conn[k].requests[id] = r]
  IN [S2 EXCEPT !.conn[k].reqRefCount = @ + 1]

\* Connection.prototype.open(chan, id, mode, token); S.ret is the request it
\* returns (0 for null).
Connection_open(S, k, c, id) ==
  LET oldchan == S.conn[k].channels[id]
  IN IF oldchan # 0 /\ ~S.chan[oldchan].closing
       THEN [S EXCEPT !.ticks = Append(@, [kind |-> "fail", who |-> c]), !.ret = 0]
       ELSE
         LET S1 == OpenRequest(S, k, c, id)
             S2 == IF S1.conn[k].sock /\ oldchan = 0 THEN OpenRequest_send(S1, c) ELSE S1
         IN [S2 EXCEPT !.ret = c]

\* Connection.getConnection(url); S.ret is the connection it returns.  A new
\* Connection registers itself in Connection.all and starts the handshake.
Connection_getConnection(S) ==
  IF S.all # 0 THEN [S EXCEPT !.ret = S.all]
  ELSE IF S.disposed # 0
    THEN [Connection_setDisposed(S, S.disposed, FALSE) EXCEPT !.ret = S.disposed]
  ELSE
    LET k == S.nconn + 1
    IN [S EXCEPT !.nconn = k, !.all = k, !.ret = k,
                 !.conn[k] = [Connection EXCEPT !.alive = TRUE,
                                                !.handshake = "pending"]]

\* Channel.prototype.connect(url, mode) with the id the url names
Channel_connect(S, c, id) ==
  LET S1 == [S EXCEPT !.chan[c] = [@ EXCEPT !.id = id, !.connecting = TRUE,
                                            !.readable = TRUE, !.writable = TRUE,
                                            !.emitable = TRUE]]
      S2 == Connection_getConnection(S1)
      S3 == [S2 EXCEPT !.chan[c].conn = S2.ret]
      S4 == Connection_open(S3, S2.ret, c, id)
  IN [S4 EXCEPT !.chan[c].request = S4.ret]

\* Channel.prototype.write / dispatch after their validation passed
Channel_write(S, c) ==
  LET tag == S.submitted[c] + 1
  IN Call([S EXCEPT !.submitted[c] = tag],
          [f |-> "Channel_writeOut", c |-> c, packet |-> DataFrame(S.chan[c].id, 1, c, tag)])

Channel_dispatch(S, c) ==
  LET tag == S.submitted[c] + 1
  IN Call([S EXCEPT !.submitted[c] = tag],
          [f |-> "Channel_writeOut", c |-> c,
           packet |-> SignalFrame(S.chan[c].id, FLAG_EMIT, c, tag)])

\* ------------------------------------- the user's calls, with arguments
\* An exception thrown to the caller of connect, write or dispatch
Raise(S, what) == [S EXCEPT !.thrown = what]

\* The values of an argument: not given, a number, a string
Undefined == [t |-> "undefined", v |-> 0, s |-> ""]
Null == [t |-> "null", v |-> 0, s |-> ""]
Num(n) == [t |-> "number", v |-> n, s |-> ""]
Str(s) == [t |-> "string", v |-> 0, s |-> s]
\* `x ||`: a number other than 0 and a non-empty string are truthy
Truthy(x) ==
  \/ x.t = "number" /\ x.v # 0
  \/ x.t = "string" /\ x.s # ""

\* A string `data` of n characters; the empty string is falsy.  The Buffer
\* made of it has n bytes.
Text(n) == [t |-> "string", length |-> n]
\* /^(ascii|utf8|base64|json)/i
VALID_ENCODINGS_RE(encoding) == encoding.s \in {"ascii", "utf8", "base64", "json"}

\* Channel.prototype.setEncoding(encoding)
Channel_setEncoding(S, c, encoding) ==
  IF Truthy(encoding) /\ ~VALID_ENCODINGS_RE(encoding)
    THEN Raise(S, "Encoding method not supported")
    ELSE [S EXCEPT !.chan[c].encoding = IF Truthy(encoding) THEN encoding.s ELSE NoErr]

\* Channel.prototype.write(data, encoding, priority)
write(S, c, data, encoding, priority) ==
  LET p == IF Truthy(priority) THEN priority ELSE Num(1)
  IN IF ~S.chan[c].writable THEN Raise(S, "Channel is not writable")
     ELSE IF p.t # "number" \/ p.v - 1 < 0 \/ p.v - 1 > 3
       THEN Raise(S, "Bad priority, expected Number between 1-4")
     ELSE IF data.length = 0 THEN Raise(S, "Expected data")
     ELSE IF Truthy(encoding) /\ ~VALID_ENCODINGS_RE(encoding)
       THEN Raise(S, "Encoding method is not supported")
     ELSE IF data.length > MAX_PAYLOAD_SIZE
       THEN Raise(S, "Cannot send data, max length reach.")
     ELSE Call(S, [f |-> "Channel_write", c |-> c])

\* Channel.prototype.dispatch(data, encoding)
dispatch(S, c, data, encoding) ==
  IF ~S.chan[c].emitable THEN Raise(S, "Channel is not emitable.")
  ELSE IF data.length = 0 THEN Raise(S, "Expected data")
  ELSE IF Truthy(encoding) /\ ~VALID_ENCODINGS_RE(encoding)
    THEN Raise(S, "Encoding method is not supported")
  ELSE IF data.length > MAX_PAYLOAD_SIZE
    THEN Raise(S, "Cannot send data, max length reach.")
  ELSE Call(S, [f |-> "Channel_dispatch", c |-> c])

\* getBinMode: a number for a mode expression (and for none), null otherwise
getBinMode(mode) ==
  IF ~Truthy(mode) THEN Num(0)
  ELSE IF mode.t = "string"
          /\ mode.s \in {"r", "w", "rw", "rwe", "rw+e", "read", "write", "readwrite+emit"}
    THEN Num(7)
    ELSE Null

\* Channel.prototype.connect(url, mode).  url: a string with a path (Str("")
\* for none or "/", else the number or the text behind the slash) and with
\* or without a query, or something that is no string.
connect(S, c, url, mode) ==
  IF S.chan[c].connecting THEN Raise(S, "Already connecting")
  ELSE IF url.t # "string" THEN Raise(S, "bad argument, url, expected String")
  ELSE IF url.path.t = "string" /\ url.path.s # "" THEN Raise(S, "Invalid channel")
  ELSE IF getBinMode(mode).t # "number" THEN Raise(S, "Invalid mode")
  ELSE IF url.query THEN Raise(S, "ReferenceError: uri is not defined")
  ELSE Call(S, [f |-> "Channel_connect", c |-> c,
                id |-> IF url.path.t = "string" THEN 1 ELSE url.path.v])

\* The getter of Channel.prototype.readyState
readyState(S, c) ==
  IF S.chan[c].connecting THEN "opening"
  ELSE IF S.chan[c].closing THEN "closing"
  ELSE IF S.chan[c].id = 0 THEN "closed"
  ELSE LET state == IF S.chan[c].readable /\ S.chan[c].writable THEN "readwrite"
                    ELSE IF S.chan[c].readable THEN "read"
                    ELSE IF S.chan[c].writable THEN "write"
                    ELSE "undefined"
       IN IF ~S.chan[c].emitable THEN state
          ELSE CASE state = "readwrite" -> "readwrite+emit"
                 [] state = "read" -> "read+emit"
                 [] state = "write" -> "write+emit"
                 [] OTHER -> "undefined+emit"

\* Channel.prototype.end(message)
Channel_end(S, c) ==
  IF S.chan[c].destroyed \/ S.chan[c].closing THEN S
  ELSE Call([S EXCEPT !.chan[c].endsig = SignalFrame(S.chan[c].id, FLAG_END, c, 0)],
            [f |-> "Channel_destroy", c |-> c, err |-> NoErr])

\* The callback of getSock in Connection.prototype.connect, on success:
\* the loop writes the head of every queue.
RECURSIVE writeHeads(_, _, _)
writeHeads(S, k, i) ==
  IF i > NumIds THEN S
  ELSE
    LET r == S.conn[k].requests[i]
        S1 == IF r # 0
                THEN [Connection_write(S, k, OpenFrame(r, S.req[r].id))
                        EXCEPT !.req[r].sent = TRUE]
                ELSE S
    IN writeHeads(S1, k, i + 1)

\* The callback without the setDisposed(true) for a connection nobody uses
Connection_connectedUndisposed(S, k) ==
  writeHeads([S EXCEPT !.conn[k].sock = TRUE, !.conn[k].handshake = "done"], k, 1)

Connection_connected(S, k) ==
  LET S1 == [S EXCEPT !.conn[k].sock = TRUE, !.conn[k].handshake = "done"]
      S2 == IF S1.conn[k].reqRefCount = 0 THEN Connection_setDisposed(S1, k, TRUE) ELSE S1
  IN writeHeads(S2, k, 1)

\* The callback of getSock on failure
Connection_connectFailed(S, k) ==
  Call([S EXCEPT !.conn[k].handshake = "failed"],
       [f |-> "Connection_destroy", k |-> k, err |-> "handshake failed", message |-> NoErr])

\* The next-tick callback of OpenRequest.prototype.send
OpenRequest_sendTick(S, r) ==
  Connection_write([S EXCEPT !.req[r].sent = TRUE], S.req[r].conn, OpenFrame(r, S.req[r].id))

\* sock.on("drain")
RECURSIVE drainAll(_, _, _)
drainAll(S, k, i) ==
  IF i > NumIds THEN S
  ELSE
    LET c == S.conn[k].channels[i]
    IN drainAll(IF c # 0 THEN Emit(S, c, Ev("drain")) ELSE S, k, i + 1)

\* The parser's loop (parserImplementation, conn.sock.ondata) from the offset
\* on; the bytes from the offset on stay as the parser's buffer.
\* After a bad packet this one goes on with the bytes that follow it.
RECURSIVE parserLoopSkipBad(_, _, _, _, _)
parserLoopSkipBad(S, k, buffer, offset, sockFlushed) ==
  LET length == Len(buffer)
      rest == [S EXCEPT !.conn[k].buffer = SubSeq(buffer, offset + 1, length)]
      p == parsePacket(buffer, offset, length)
  IN IF ~(offset < length) \/ ~Ok(S) THEN rest
     ELSE IF p.r = "break" THEN rest
     ELSE IF p.r = "bad"
       THEN parserLoopSkipBad(
              Call(rest, [f |-> "Connection_destroy", k |-> k, err |-> "bad packet size",
                          message |-> NoErr]),
              k, buffer, offset + (IF p.packetlen < 2 THEN 2 ELSE p.packetlen),
              sockFlushed)
     ELSE
       LET S1 ==
             CASE p.op = 1 ->
                    Call(S, [f |-> "Connection_processOpen", k |-> k, id |-> Narrow(p.ch),
                             flag |-> p.flag, sockFlushed |-> sockFlushed,
                             payload |-> IF p.flag = FLAG_REDIRECT
                                           THEN redirectContent(p.data)
                                           ELSE Buffer_toString(p.data)])
               [] p.op = 2 ->
                    Call(S, [f |-> "Connection_processData", k |-> k, id |-> Narrow(p.ch),
                             flag |-> p.flag, data |-> p.data])
               [] p.op = 3 ->
                    Call(S, [f |-> "Connection_processSignal", k |-> k, id |-> Narrow(p.ch),
                             flag |-> p.flag, message |-> Buffer_toString(p.data)])
               [] OTHER -> S
       IN parserLoopSkipBad(S1, k, buffer, offset + p.packetlen, sockFlushed)

RECURSIVE parserLoop(_, _, _, _, _)
parserLoop(S, k, buffer, offset, sockFlushed) ==
  LET length == Len(buffer)
      rest == [S EXCEPT !.conn[k].buffer = SubSeq(buffer, offset + 1, length)]
      p == parsePacket(buffer, offset, length)
  IN IF ~(offset < length /\ S.conn[k].alive) \/ ~Ok(S) THEN rest
     ELSE IF p.r = "break" THEN rest
     ELSE IF p.r = "bad"
       THEN Call(rest, [f |-> "Connection_destroy", k |-> k, err |-> "bad packet size",
                        message |-> NoErr])
     ELSE
       LET S1 ==
             CASE p.op = 1 ->
                    Call(S, [f |-> "Connection_processOpen", k |-> k, id |-> Narrow(p.ch),
                             flag |-> p.flag, sockFlushed |-> sockFlushed,
                             payload |-> IF p.flag = FLAG_REDIRECT
                                           THEN redirectContent(p.data)
                                           ELSE Buffer_toString(p.data)])
               [] p.op = 2 ->
                    Call(S, [f |-> "Connection_processData", k |-> k, id |-> Narrow(p.ch),
                             flag |-> p.flag, data |-> p.data])
               [] p.op = 3 ->
                    Call(S, [f |-> "Connection_processSignal", k |-> k, id |-> Narrow(p.ch),
                             flag |-> p.flag, message |-> Buffer_toString(p.data)])
               [] OTHER -> S
       IN parserLoop(S1, k, buffer, offset + p.packetlen, sockFlushed)

\* conn.sock.ondata(chunk, start, end): the chunk is appended to what the
\* parser kept, and the loop runs from the start of it.
sock_ondata(S, k, chunk, sockFlushed) ==
  parserLoop(S, k, S.conn[k].buffer \o chunk, 0, sockFlushed)

Call(S, a) ==
  CASE a.f = "finalizeDestroyChannel" -> finalizeDestroyChannel(S, a.c, a.err, a.message)
    [] a.f = "OpenRequest_destroy" -> OpenRequest_destroy(S, a.r, a.err)
    [] a.f = "OpenRequest_destroyAndNext" -> OpenRequest_destroyAndNext(S, a.r, a.err)
    [] a.f = "OpenRequest_cancel" -> OpenRequest_cancel(S, a.r)
    [] a.f = "Channel_writeOut" -> Channel_writeOut(S, a.c, a.packet)
    [] a.f = "Channel_destroy" -> Channel_destroy(S, a.c, a.err)
    [] a.f = "Channel_open" -> Channel_open(S, a.c, a.newid, a.sockFlushed)
    [] a.f = "Connection_destroy" -> Connection_destroy(S, a.k, a.err, a.message)
    [] a.f = "Channel_connect" -> Channel_connect(S, a.c, a.id)
    [] a.f = "Channel_write" -> Channel_write(S, a.c)
    [] a.f = "Channel_dispatch" -> Channel_dispatch(S, a.c)
    [] a.f = "Channel_end" -> Channel_end(S, a.c)
    [] a.f = "Connection_connected" -> Connection_connected(S, a.k)
    [] a.f = "Connection_connectFailed" -> Connection_connectFailed(S, a.k)
    [] a.f = "OpenRequest_sendTick" -> OpenRequest_sendTick(S, a.r)
    [] a.f = "Connection_processOpen" ->
         Connection_processOpen(S, a.k, a.id, a.flag, a.payload, a.sockFlushed)
    [] a.f = "Connection_processData" ->
         Connection_processData(S, a.k, a.id, a.flag, a.data)
    [] a.f = "Connection_processSignal" ->
         Connection_processSignal(S, a.k, a.id, a.flag, a.message)
    [] a.f = "drainAll" -> drainAll(S, a.k, 1)
    [] a.f = "Channel_setEncoding" -> Channel_setEncoding(S, a.c, a.encoding)
    [] a.f = "write" -> write(S, a.c, a.data, a.encoding, a.priority)
    [] a.f = "dispatch" -> dispatch(S, a.c, a.data, a.encoding)
    [] a.f = "connect" -> connect(S, a.c, a.url, a.mode)
    [] a.f = "sock_ondata" -> sock_ondata(S, a.k, a.chunk, a.sockFlushed)

\* ----------------------------------------------------------- actions
Running == crashed = NoErr
\* An I/O callback runs only after the next-tick queue is empty.
Idle == Running /\ ticks = <<>>
Live(k) == conn[k].alive /\ conn[k].sock

\* The data, signal and drain events emitted so far, on all channels.
RECURSIVE ioEvents(_)
ioEvents(c) ==
  IF c = 0 THEN 0
  ELSE ioEvents(c - 1)
       + Cardinality({i \in 1..Len(events[c]) : events[c][i].ev \in {"data", "signal", "drain"}})
\* An inbound frame or drain that reaches no channel changes nothing.
MayDeliver == ioEvents(NumChans) < MaxInbound

RECURSIVE allSubmitted(_)
allSubmitted(c) == IF c = 0 THEN 0 ELSE allSubmitted(c - 1) + submitted[c]
MaySubmit == allSubmitted(NumChans) < MaxWrites

\* The ids some connect has used; ids are interchangeable, so a connect uses
\* an id already used or the lowest unused one.
UsedIds == {req[r].id : r \in Chans} \ {0}

\* hydna.createChannel(url, mode): channels are created in the order of their
\* numbers (they are interchangeable).
UserConnect(c, id) ==
  /\ Running
  /\ chan[c].id = 0 /\ ~chan[c].destroyed /\ ~chan[c].connecting
  /\ \A d \in Chans : d < c => (chan[d].conn # 0 \/ chan[d].destroyed)
  /\ \A j \in Ids : j < id => j \in UsedIds
  /\ (all = 0 /\ disposed = 0) => nconn < MaxConns
  /\ Commit(Call(St, [f |-> "Channel_connect", c |-> c, id |-> id]))

UserWrite(c) ==
  /\ Running
  /\ chan[c].writable
  /\ MaySubmit
  /\ Commit(Call(St, [f |-> "Channel_write", c |-> c]))

UserDispatch(c) ==
  /\ Running
  /\ chan[c].emitable
  /\ MaySubmit
  /\ Commit(Call(St, [f |-> "Channel_dispatch", c |-> c]))

UserEnd(c) ==
  /\ Running
  /\ chan[c].id # 0
  /\ Commit(Call(St, [f |-> "Channel_end", c |-> c]))

UserDestroy(c) ==
  /\ Running
  /\ chan[c].id # 0
  /\ Commit(Call(St, [f |-> "Channel_destroy", c |-> c, err |-> NoErr]))

Tick ==
  /\ Running
  /\ ticks # <<>>
  /\ LET t == Head(ticks)
         S == [St EXCEPT !.ticks = Tail(ticks)]
     IN Commit(Call(S, IF t.kind = "send"
                         THEN [f |-> "OpenRequest_sendTick", r |-> t.who]
                         ELSE [f |-> "finalizeDestroyChannel", c |-> t.who,
                               err |-> "Channel is already open", message |-> NoErr]))

HandshakeOk(k) ==
  /\ Idle
  /\ conn[k].handshake = "pending"
  /\ Commit(Call(St, [f |-> "Connection_connected", k |-> k]))

HandshakeFail(k) ==
  /\ Idle
  /\ conn[k].handshake = "pending"
  /\ Commit(Call(St, [f |-> "Connection_connectFailed", k |-> k]))

\* An inbound OPEN frame: the server answers an OPEN that is on the wire.
ServerOpen(k, id, flag, payload, sockFlushed) ==
  /\ Idle
  /\ Live(k)
  /\ unanswered[k][id] > 0
  /\ Commit(Call([St EXCEPT !.unanswered[k][id] = @ - 1],
                 [f |-> "Connection_processOpen", k |-> k, id |-> id, flag |-> flag,
                  payload |-> payload, sockFlushed |-> sockFlushed]))

ServerData(k, id) ==
  /\ Idle
  /\ Live(k)
  /\ MayDeliver
  /\ Commit(Call(St, [f |-> "Connection_processData", k |-> k, id |-> id, flag |-> 0,
                    data |-> <<>>]))

ServerSignal(k, id, flag, message) ==
  /\ Idle
  /\ Live(k)
  /\ flag = FLAG_EMIT => MayDeliver
  /\ (flag # FLAG_EMIT /\ id # ALL_CHANNELS /\ conn[k].channels[id] # 0)
        => Len(wire[conn[k].channels[id]]) < MaxWire
  /\ Commit(Call(St, [f |-> "Connection_processSignal", k |-> k, id |-> id, flag |-> flag,
                    message |-> message]))

\* A packet whose length field is 5
BadPacket == <<0, 5, 0, 0, 1>>

\* What the socket delivers to the parser: the bad packet alone, before and
\* after other frames, a SIGNAL END for all channels before an OPEN response,
\* DATA frames with the texts `1` and `{`, and the first byte of a length
\* field.
Chunks ==
  {BadPacket,
   BadPacket \o SignalFrame_toBuffer(Wide(1), FLAG_EMIT, <<>>),
   SignalFrame_toBuffer(Wide(1), FLAG_EMIT, <<>>) \o BadPacket
     \o OpenRequest_toBuffer(Wide(1), FLAG_ALLOW, <<>>),
   SignalFrame_toBuffer(Wide(ALL_CHANNELS), FLAG_END, Buffer_from("bye"))
     \o OpenRequest_toBuffer(Wide(1), FLAG_ALLOW, <<>>),
   DataFrame_toBuffer(Wide(1), 1, <<49>>),
   DataFrame_toBuffer(Wide(1), 1, <<123>>),
   <<0>>}

\* sock.ondata: a chunk of the server's bytes
SockData(k, chunk) ==
  /\ Idle
  /\ Live(k)
  /\ MayDeliver
  /\ Commit(Call(St, [f |-> "sock_ondata", k |-> k, chunk |-> chunk,
                    sockFlushed |-> FALSE]))

\* chan.setEncoding("json"), before the channel is connected
UserSetEncoding(c) ==
  /\ Running
  /\ chan[c].id = 0 /\ ~chan[c].destroyed /\ chan[c].encoding = NoErr
  /\ Commit(Call(St, [f |-> "Channel_setEncoding", c |-> c, encoding |-> Str("json")]))

SockDrain(k) ==
  /\ Idle
  /\ Live(k)
  /\ MayDeliver
  /\ Commit(Call(St, [f |-> "drainAll", k |-> k]))

\* chan.on("close", ...) on an open channel c: the listener connects channel
\* d to id.  One listener in a run, for the last of the channels.
UserOnClose(c, d, id) ==
  /\ Running
  /\ \A e \in Chans : chan[e].onclose = 0
  /\ ~chan[c].destroyed /\ ~chan[c].connecting /\ ~chan[c].closing
  /\ chan[c].id # 0 /\ chan[c].conn # 0
  /\ conn[chan[c].conn].channels[chan[c].id] = c
  /\ d # c /\ chan[d].id = 0 /\ ~chan[d].destroyed /\ ~chan[d].connecting
  /\ Commit([St EXCEPT !.chan[c].onclose = d, !.chan[c].oncloseId = id])

\* sock.on("error"), and sock.on("close") with hadError = false
SockError(k, err) ==
  /\ Idle
  /\ Live(k)
  /\ Commit(Call([St EXCEPT !.conn[k].sock = FALSE],
                 [f |-> "Connection_destroy", k |-> k, err |-> err, message |-> NoErr]))

\* The 200 ms timeout armed by setDisposed(true)
SockTimeout(k) ==
  /\ Idle
  /\ Live(k)
  /\ conn[k].timer
  /\ Commit(Call(St, [f |-> "Connection_destroy", k |-> k, err |-> NoErr, message |-> NoErr]))

\* The user's calls that close a channel
UserClose ==
  \/ \E c \in Chans : UserEnd(c)
  \/ \E c \in Chans : UserDestroy(c)

\* The next-tick queue, the handshake, the server's OPEN responses and its END
\* and ERROR signals, and the socket's failures
Lifecycle ==
  \/ Tick
  \/ \E k \in Conns : HandshakeOk(k)
  \/ \E k \in Conns : HandshakeFail(k)
  \/ \E k \in Conns, id \in Ids, f \in BOOLEAN :
        \/ ServerOpen(k, id, FLAG_ALLOW, 0, f)
        \/ \E newid \in Ids : ServerOpen(k, id, FLAG_REDIRECT, newid, f)
        \/ \E text \in {NoErr, "NOT_ALLOWED"} : ServerOpen(k, id, FLAG_DENY, text, f)
  \/ \E k \in Conns, id \in {ALL_CHANNELS} \cup Ids :
        \/ \E m \in {NoErr, "bye"} : ServerSignal(k, id, FLAG_END, m)
        \/ ServerSignal(k, id, FLAG_ERROR, NoErr)
  \/ \E k \in Conns : SockError(k, "socket error")
  \/ \E k \in Conns : SockTimeout(k)

\* Inbound DATA and SIGNAL EMIT frames, SIGNAL ERROR frames with a payload, and
\* the socket's drain
Inbound ==
  \/ \E k \in Conns, id \in {ALL_CHANNELS} \cup Ids : ServerData(k, id)
  \/ \E k \in Conns, id \in {ALL_CHANNELS} \cup Ids : ServerSignal(k, id, FLAG_EMIT, NoErr)
  \/ \E k \in Conns, id \in {ALL_CHANNELS} \cup Ids : ServerSignal(k, id, FLAG_ERROR, "bye")
  \/ \E k \in Conns : SockDrain(k)

\* The user's writes
Outbound ==
  \/ \E c \in Chans : UserWrite(c)
  \/ \E c \in Chans : UserDispatch(c)

\* Two channels, their whole life and what the server and the socket deliver
Next ==
  \/ \E c \in 1..IoChans, id \in Ids : UserConnect(c, id)
  \/ UserClose
  \/ Lifecycle
  \/ Inbound
Spec == Init /\ [][Next]_vars

\* Two channels, their whole life and what the user writes
NextWrite ==
  \/ \E c \in 1..IoChans, id \in Ids : UserConnect(c, id)
  \/ UserClose
  \/ Lifecycle
  \/ Outbound
SpecWrite == Init /\ [][NextWrite]_vars

\* Three channels on the first connection: the reuse of an id
NextReuse ==
  \/ \E c \in Chans, id \in Ids :
        (nconn = 0 \/ all # 0 \/ disposed # 0) /\ UserConnect(c, id)
  \/ UserClose
  \/ Lifecycle
SpecReuse == Init /\ [][NextReuse]_vars

\* Two channels and the chunks the parser gets
NextParse ==
  \/ \E c \in 1..IoChans, id \in Ids : UserConnect(c, id)
  \/ UserClose
  \/ Tick
  \/ \E k \in Conns : HandshakeOk(k)
  \/ \E k \in Conns, id \in Ids, f \in BOOLEAN : ServerOpen(k, id, FLAG_ALLOW, 0, f)
  \/ \E k \in Conns, chunk \in Chunks : SockData(k, chunk)
  \/ \E c \in 1..IoChans : UserSetEncoding(c)
SpecParse == Init /\ [][NextParse]_vars

\* Two channels and a `close` listener that connects a third (the user's
\* connects make the first connection only): the server ends channels, the
\* socket fails
NextReopen ==
  \/ \E c \in 1..IoChans, id \in Ids :
        ((all = 0 /\ disposed = 0) => nconn + 1 < MaxConns) /\ UserConnect(c, id)
  \/ \E c \in 1..IoChans, id \in Ids : UserOnClose(c, NumChans, id)
  \/ UserClose
  \/ Tick
  \/ \E k \in Conns : HandshakeOk(k)
  \/ \E k \in Conns, id \in Ids, f \in BOOLEAN :
        \/ ServerOpen(k, id, FLAG_ALLOW, 0, f)
        \/ ServerOpen(k, id, FLAG_DENY, NoErr, f)
  \/ \E k \in Conns, id \in {ALL_CHANNELS} \cup Ids, m \in {NoErr, "bye"} :
        ServerSignal(k, id, FLAG_END, m)
  \/ \E k \in Conns : SockError(k, "socket error")
SpecReopen == Init /\ [][NextReopen]_vars

\* ------------------------------------------------ the codec by itself
\* The parser's loop without the bytes it keeps for the next chunk
RECURSIVE codecLoopForgetful(_, _, _)
codecLoopForgetful(C, buffer, offset) ==
  LET length == Len(buffer)
      rest == [C EXCEPT !.buffer = <<>>]
      p == parsePacket(buffer, offset, length)
  IN IF ~(offset < length) \/ C.bad THEN rest
     ELSE IF p.r = "break" THEN rest
     ELSE IF p.r = "bad" THEN [rest EXCEPT !.bad = TRUE]
     ELSE codecLoopForgetful([C EXCEPT !.out =
                                IF p.op \in {1, 2, 3}
                                  THEN Append(@, [op |-> p.op, id |-> p.ch,
                                                  flag |-> p.flag, data |-> p.data])
                                  ELSE @],
                             buffer, offset + p.packetlen)

\* The parser's loop on a connection that stays live, where processOpen,
\* processData and processSignal record what they are called with.
RECURSIVE codecLoop(_, _, _)
codecLoop(C, buffer, offset) ==
  LET length == Len(buffer)
      rest == [C EXCEPT !.buffer = SubSeq(buffer, offset + 1, length)]
      p == parsePacket(buffer, offset, length)
  IN IF ~(offset < length) \/ C.bad THEN rest
     ELSE IF p.r = "break" THEN rest
     ELSE IF p.r = "bad" THEN [rest EXCEPT !.bad = TRUE]
     ELSE codecLoop([C EXCEPT !.out =
                       IF p.op \in {1, 2, 3}
                         THEN Append(@, [op |-> p.op, id |-> p.ch, flag |-> p.flag,
                                         data |-> p.data])
                         ELSE @],
                    buffer, offset + p.packetlen)

\* Channel ids over the 32 bits: 0, 1, 255, 256, 2^16 - 1, 2^16, 2^24 - 1,
\* 2^24, 2^31 and 2^32 - 1
CodecIds ==
  {Wide(0), Wide(1), Wide(255), Wide(256), Wide(2^16 - 1), Wide(2^16), Wide(2^24 - 1),
   Wide(2^24), [hi |-> 2^15, lo |-> 0], [hi |-> 2^16 - 1, lo |-> 2^16 - 1]}
\* Payloads of 0, 1, 249 (a packet of 256 bytes) and MAX_PAYLOAD_SIZE bytes
Payload(n) == [i \in 1..n |-> (7 * i) % 256]
CodecFrames ==
  [op : {1, 2, 3}, id : CodecIds, flag : 0..7,
   data : {Payload(n) : n \in {0, 1, 249, MAX_PAYLOAD_SIZE}}]

\* A frame to encode, and a parser that has got nothing yet
InitCodec ==
  /\ Loaded
  /\ getsock = NoGetSock
  /\ \E frame \in CodecFrames : codec = [NoCodec EXCEPT !.frame = frame]

\* frame.toBuffer(), handed to the socket
CodecEncode ==
  /\ ~codec.encoded
  /\ codec' = [codec EXCEPT !.encoded = TRUE, !.pending =
                 CASE codec.frame.op = 1 ->
                        OpenRequest_toBuffer(codec.frame.id, codec.frame.flag,
                                             codec.frame.data)
                   [] codec.frame.op = 2 ->
                        DataFrame_toBuffer(codec.frame.id, codec.frame.flag,
                                           codec.frame.data)
                   [] codec.frame.op = 3 ->
                        SignalFrame_toBuffer(codec.frame.id, codec.frame.flag,
                                             codec.frame.data)]
  /\ UNCHANGED <<chan, req, conn, all, disposed, nconn, ticks, wire, unanswered,
                 events, submitted, crashed, getsock>>

\* The bytes of the frame the parser has got
Delivered ==
  IF codec.encoded
    THEN Len(toBuffer(codec.frame.op, codec.frame.id, codec.frame.flag,
                      codec.frame.data)) - Len(codec.pending)
    ELSE 0

\* sock.ondata with the next n bytes; the chunk that makes MaxChunks chunks
\* has all the bytes left.
CodecData(n) ==
  /\ codec.pending # <<>>
  /\ n <= Len(codec.pending)
  /\ (n < Len(codec.pending)) => (codec.chunks + 1 < MaxChunks)
  /\ codec' = [codecLoop(codec, codec.buffer \o SubSeq(codec.pending, 1, n), 0)
                 EXCEPT !.pending = SubSeq(codec.pending, n + 1, Len(codec.pending)),
                        !.chunks = @ + 1]
  /\ UNCHANGED <<chan, req, conn, all, disposed, nconn, ticks, wire, unanswered,
                 events, submitted, crashed, getsock>>

\* A frame through toBuffer and the parser, in one chunk or cut after 1, 2,
\* 6, 7 or 8 bytes
NextCodec ==
  \/ CodecEncode
  \/ \E n \in {1, 2, 6, 7, 8, Len(codec.pending)} : CodecData(n)
SpecCodec == InitCodec /\ [][NextCodec]_vars

\* ------------------------------------------- a stream of frames
\* The frames of a stream: NOOP, OPEN, DATA and SIGNAL frames for the id
\* 0x01020304 (four different bytes) with flag 5 and a payload of 0 or 2 bytes
StreamFrames ==
  [op : {0, 1, 2, 3}, id : {[hi |-> 258, lo |-> 772]}, flag : {5},
   data : {Payload(0), Payload(2)}]

\* The bytes of the frames, one after the other
RECURSIVE StreamBytes(_)
StreamBytes(frames) ==
  IF frames = <<>> THEN <<>>
  ELSE toBuffer(Head(frames).op, Head(frames).id, Head(frames).flag, Head(frames).data)
       \o StreamBytes(Tail(frames))

\* MaxFrames frames on their way to a parser that has got nothing yet
InitStream ==
  /\ Loaded
  /\ getsock = NoGetSock
  /\ \E frames \in [1..MaxFrames -> StreamFrames] :
       codec = [NoCodec EXCEPT !.stream = frames, !.pending = StreamBytes(frames)]

\* sock.ondata with the next n bytes of the stream
StreamData(n) ==
  /\ codec.stream # <<>>
  /\ n <= Len(codec.pending)
  /\ codec' = [codecLoop(codec, codec.buffer \o SubSeq(codec.pending, 1, n), 0)
                 EXCEPT !.pending = SubSeq(codec.pending, n + 1, Len(codec.pending)),
                        !.chunks = @ + 1]
  /\ UNCHANGED <<chan, req, conn, all, disposed, nconn, ticks, wire, unanswered,
                 events, submitted, crashed, getsock>>

\* A stream of frames cut into chunks of any lengths
NextStream == \E n \in 1..Len(codec.pending) : StreamData(n)
SpecStream == InitStream /\ [][NextStream]_vars

\* ---------------------------------------------------- the handshake
\* C(err, sock): the callback of getSock
C(G, err, sock) == [G EXCEPT !.outcomes = Append(@, [err |-> err, sock |-> sock])]

\* dorequest(url), with the protocol of the url
dorequest(G, protocol) ==
  IF protocol # "http:" /\ protocol # "https:"
    THEN C(G, "Redirect, bad protocol", "none")
    ELSE [G EXCEPT !.protocol = protocol, !.requesting = TRUE]

\* require("http").STATUS_CODES, and the message of the error for a response
\* that is no redirect: STATUS_CODES[code], followed by the body if it has one
STATUS_CODES(code) == IF code = 200 THEN "OK" ELSE "Not Found"
statusError(code, msg) ==
  IF msg = NoErr THEN STATUS_CODES(code)
  ELSE IF code = 200 THEN "OK (body)" ELSE "Not Found (body)"

\* res.on("end"): the response has the status code and the body msg, and
\* location is the protocol of its Location header ("missing": url.parse
\* throws).  The counter is compared with MAX_REDIRECTS, then incremented.
res_onend(G, code, location, msg) ==
  IF code \in {301, 302, 307}
    THEN IF G.followRedirects
           THEN LET G1 == [G EXCEPT !.redirections = @ + 1]
                IN IF G.redirections = MAX_REDIRECTS
                     THEN C(G1, "Max HTTP redirections reached", "none")
                   ELSE IF location = "missing"
                     THEN C(G1, "TypeError", "none")
                   ELSE dorequest(G1, location)
           ELSE C(G, "Redirected by host, followRedirects=false", "none")
    ELSE C(G, statusError(code, msg), "none")

\* req.on("error")
req_onerror(G, err) == C(G, err, "none")

\* req.on("upgrade"): the socket is handed over, destroyed when the upgrade
\* header is not winksock/1.
req_onupgrade(G, upgrade) ==
  C(G, NoErr, IF upgrade # "winksock/1" THEN "destroyed" ELSE "open")

\* getSock(url, C) has been called and the first request is out.
InitSock ==
  /\ Loaded
  /\ codec = NoCodec
  /\ \E follow \in BOOLEAN, protocol \in {"http:", "https:"} :
       getsock = dorequest([NoGetSock EXCEPT !.followRedirects = follow], protocol)

\* The request out gets a response, an error or the upgrade.
Response(code, location, msg) ==
  /\ getsock.requesting
  /\ code \in {301, 302, 307} => getsock.hops < MaxHops
  /\ getsock' = res_onend([getsock EXCEPT !.requesting = FALSE,
                                          !.hops = IF code \in {301, 302, 307}
                                                     THEN @ + 1 ELSE @],
                          code, location, msg)
  /\ UNCHANGED <<chan, req, conn, all, disposed, nconn, ticks, wire, unanswered,
                 events, submitted, crashed, codec>>

RequestError ==
  /\ getsock.requesting
  /\ getsock' = req_onerror([getsock EXCEPT !.requesting = FALSE], "ECONNREFUSED")
  /\ UNCHANGED <<chan, req, conn, all, disposed, nconn, ticks, wire, unanswered,
                 events, submitted, crashed, codec>>

Upgrade(upgrade) ==
  /\ getsock.requesting
  /\ getsock' = req_onupgrade([getsock EXCEPT !.requesting = FALSE], upgrade)
  /\ UNCHANGED <<chan, req, conn, all, disposed, nconn, ticks, wire, unanswered,
                 events, submitted, crashed, codec>>

\* One handshake: redirects, other responses, errors and the upgrade
NextSock ==
  \/ \E code \in {301, 302, 307}, location \in {"http:", "https:", "ftp:", "missing"} :
       Response(code, location, NoErr)
  \/ \E code \in {200, 404}, msg \in {NoErr, "body"} : Response(code, "missing", msg)
  \/ RequestError
  \/ \E upgrade \in {"winksock/1", "winksock/2"} : Upgrade(upgrade)
SpecSock == InitSock /\ [][NextSock]_vars

\* -------------------------------------------------------- properties
\* The positions of the events called `name` in a channel's event sequence
Idx(evs, name) == {i \in 1..Len(evs) : evs[i].ev = name}
IoEvent == {"data", "signal", "drain"}

\* C1: on every channel `close` is emitted at most once, every `error` is
\* emitted before the channel's `close`, and `close` carries hadError = true
\* exactly when an `error` was emitted on the channel.
C1_CloseOnce ==
  \A c \in Chans :
    /\ Cardinality(Idx(events[c], "close")) <= 1
    /\ \A i \in Idx(events[c], "error"), j \in Idx(events[c], "close") : i < j
    /\ \A j \in Idx(events[c], "close") :
         events[c][j].hadError <=> Idx(events[c], "error") # {}
    /\ \A i \in Idx(events[c], "error") : Idx(events[c], "close") # {}

\* A channel closed with an error and a channel closed without one, after a
\* connection with a channel on it was destroyed.
C1_Witness ==
  /\ \E c \in Chans : \E j \in Idx(events[c], "close") :
        events[c][j].hadError /\ Idx(events[c], "error") = {j - 1}
  /\ \E c \in Chans : \E j \in Idx(events[c], "close") :
        ~events[c][j].hadError /\ Idx(events[c], "connect") # {}
  /\ \E k \in Conns : conn[k].handshake = "done" /\ ~conn[k].alive

\* C2: once a channel has emitted `close`, no `connect`, `data`, `signal` or
\* `drain` is emitted on it.
C2_NothingAfterClose ==
  \A c \in Chans : \A i \in Idx(events[c], "close") :
    \A j \in 1..Len(events[c]) :
      j > i => events[c][j].ev \notin IoEvent \cup {"connect"}

\* C3: when a connection has been destroyed, every channel that was attached
\* to it (registered, or with an OpenRequest on it) has emitted `close`.
C3_DestroyClosesAll ==
  \A c \in Chans, k \in Conns :
    (/\ conn[k].handshake # "none" /\ ~conn[k].alive
     /\ (chan[c].conn = k \/ req[c].conn = k)
     /\ ticks = <<>>)
      => Idx(events[c], "close") # {}

\* The OpenRequests for id on connection k that are sent and not destroyed
SentRequests(k, id) ==
  {r \in Chans : req[r].conn = k /\ req[r].id = id /\ req[r].sent /\ ~req[r].destroyed}

\* C4: for each channel id on a connection at most one OpenRequest has
\* sent = true.
C4_OneInFlight ==
  \A k \in Conns, id \in Ids : Cardinality(SentRequests(k, id)) <= 1

\* The frames written for channel c in this step
NewFrames(c) == SubSeq(wire'[c], Len(wire[c]) + 1, Len(wire'[c]))

\* C5: no OPEN frame for an id goes on the socket while a channel registered
\* at that id is closing, or while another open for that id is in flight.
C5_NoOpenAhead ==
  [][\A c \in Chans : \A i \in 1..Len(NewFrames(c)) :
       LET f == NewFrames(c)[i]
       IN f.op = "OPEN" =>
            /\ conn[f.k].channels[f.id] # 0 => ~chan[conn[f.k].channels[f.id]].closing
            /\ SentRequests(f.k, f.id) \ {c} = {}]_vars

\* The OpenRequests for id on connection k that wait to be sent
Waiting(k, id) ==
  {r \in Chans : req[r].conn = k /\ req[r].id = id /\ ~req[r].sent /\ ~req[r].destroyed}

\* C6: when the server's END or ERROR finalizes the closing channel at an id
\* and the socket stays live, an OpenRequest that waits for that id, with no
\* other open for the id in flight, is sent: its OPEN frame is scheduled for
\* the next tick.
C6_DeferredOpenSent ==
  [][\A k \in Conns, id \in Ids :
       LET c == conn[k].channels[id]
       IN (/\ c # 0 /\ chan[c].closing /\ ~chan[c].destroyed
           /\ chan'[c].destroyed /\ conn'[k].alive /\ conn'[k].sock
           /\ Waiting(k, id) # {} /\ SentRequests(k, id) = {})
            => \E r \in Waiting(k, id) :
                 \E i \in 1..Len(ticks') : ticks'[i] = [kind |-> "send", who |-> r]]_vars

\* The tags of the user's frames in a sequence of frames, in order
RECURSIVE Tags(_)
Tags(w) ==
  IF w = <<>> THEN <<>>
  ELSE IF Head(w).tag > 0 THEN <<Head(w).tag>> \o Tags(Tail(w)) ELSE Tags(Tail(w))

\* While a channel is opening only OPEN frames are on the socket for it, and
\* the user's frames are on the socket in the order of the calls, each once,
\* the queued ones before the others.
C7_WireInOrder ==
  \A c \in Chans :
    /\ chan[c].connecting => \A i \in 1..Len(wire[c]) : wire[c][i].op = "OPEN"
    /\ \A i, j \in 1..Len(Tags(wire[c])) : i < j => Tags(wire[c])[i] < Tags(wire[c])[j]
    /\ \A i, j \in 1..Len(wire[c]) :
         (i < j /\ wire[c][i].tag > 0 /\ wire[c][j].q) => wire[c][i].q

\* A write or dispatch on an opening channel only appends its frame to the
\* queue: nothing fails, nothing is written.
C7_QueuedWhileOpening ==
  \A c \in Chans :
    (chan[c].connecting /\ submitted'[c] = submitted[c] + 1)
      => /\ crashed' = NoErr
         /\ events' = events
         /\ wire' = wire
         /\ ~chan'[c].destroyed
         /\ Len(chan'[c].writeQueue) = Len(chan[c].writeQueue) + 1
         /\ SubSeq(chan'[c].writeQueue, 1, Len(chan[c].writeQueue)) = chan[c].writeQueue
         /\ chan'[c].writeQueue[Len(chan'[c].writeQueue)].tag = submitted'[c]

\* The open of an opening channel (one the user has not destroyed) writes its
\* whole queue, in order, under the id the channel is registered with.
C7_FlushedOnOpen ==
  \A c \in Chans :
    (chan[c].connecting /\ ~chan[c].destroyed /\ ~chan'[c].connecting)
      => /\ Len(NewFrames(c)) = Len(chan[c].writeQueue)
         /\ \A i \in 1..Len(NewFrames(c)) :
              /\ NewFrames(c)[i].op = chan[c].writeQueue[i].op
              /\ NewFrames(c)[i].tag = chan[c].writeQueue[i].tag
              /\ NewFrames(c)[i].id = chan'[c].id
              /\ conn'[NewFrames(c)[i].k].channels[NewFrames(c)[i].id] = c
         /\ chan'[c].writeQueue = <<>>

\* C7: writes and dispatches on an opening channel never fail and put no DATA
\* or SIGNAL frame on the socket before the OPEN response; on ALLOW or REDIRECT
\* the queued frames are written once each, in the order of the calls, with
\* the resolved id, before any frame submitted after the open.
C7_QueueFlushedInOrder ==
  /\ []C7_WireInOrder
  /\ [][C7_QueuedWhileOpening /\ C7_FlushedOnOpen]_vars

\* A channel opened by REDIRECT to another id whose two queued frames are on
\* the socket in the order of the calls, under the new id.
C7_Witness ==
  \E c \in Chans :
    /\ Tags(wire[c]) = <<1, 2>>
    /\ ~chan[c].connecting /\ chan[c].id # 0 /\ chan[c].id # req[c].id
    /\ \A i \in 1..Len(wire[c]) :
         wire[c][i].tag > 0 => wire[c][i].q /\ wire[c][i].id = chan[c].id

\* C8: `connect` is emitted at most once on a channel, and every `data`,
\* `signal` and `drain` on a channel comes after its `connect`.
C8_ConnectOnceFirst ==
  \A c \in Chans :
    /\ Cardinality(Idx(events[c], "connect")) <= 1
    /\ \A j \in 1..Len(events[c]) :
         events[c][j].ev \in IoEvent => \E i \in Idx(events[c], "connect") : i < j

\* The request n is on the socket or scheduled to be written.
Sent(n) ==
  req'[n].sent \/ \E i \in 1..Len(ticks') : ticks'[i] = [kind |-> "send", who |-> n]

\* C9: REDIRECT(newid) to the head request of id, whose channel the user has
\* not closed: the channel's id becomes
\* newid, the channel is registered under newid only, the frames it writes
\* carry its id, `connect` is emitted exactly once, and the successor request
\* becomes the head of the queue and is sent.
C9_Redirect ==
  [][/\ \A k \in Conns, id \in Ids, newid \in Ids, fl \in BOOLEAN :
          LET r == conn[k].requests[id]
          IN (r # 0 /\ ~chan[r].closing /\ ServerOpen(k, id, FLAG_REDIRECT, newid, fl))
               => /\ chan'[r].id = newid
                  /\ conn'[k].channels[newid] = r
                  /\ \A i \in Ids \ {newid} : conn'[k].channels[i] # r
                  /\ Cardinality(Idx(events'[r], "connect")) = 1
                  /\ \A i \in 1..Len(NewFrames(r)) : NewFrames(r)[i].id = newid
                  /\ req[r].next # 0 =>
                       conn'[k].requests[id] = req[r].next /\ Sent(req[r].next)
     /\ \A c \in Chans :
          (chan[c].id # 0 /\ ~chan[c].connecting)
            => \A i \in 1..Len(NewFrames(c)) : NewFrames(c)[i].id = chan[c].id]_vars

\* C10: DENY to the head request of id: the channel emits `error` with the
\* reason text (ERR_OPEN_DENIED for an empty payload) and then
\* `close(hadError = true)`, has emitted no `connect`, is not registered, and
\* the successor request becomes the head of the queue and is sent.
C10_Deny ==
  [][\A k \in Conns, id \in Ids, text \in {NoErr, "NOT_ALLOWED"}, fl \in BOOLEAN :
       LET r == conn[k].requests[id]
       IN (r # 0 /\ ServerOpen(k, id, FLAG_DENY, text, fl))
            => /\ events'[r] = events[r] \o
                    <<ErrorEv(IF text = NoErr THEN "ERR_OPEN_DENIED" ELSE text),
                      CloseEv(TRUE, NoErr)>>
               /\ Idx(events'[r], "connect") = {}
               /\ \A i \in Ids : conn'[k].channels[i] # r
               /\ req[r].next # 0 =>
                    conn'[k].requests[id] = req[r].next /\ Sent(req[r].next)]_vars

\* An END or ERROR of the server for an id where no channel is registered
\* writes nothing and changes nothing.
C11_NoChannelNoEffect ==
  \A k \in Conns, id \in Ids, flag \in {FLAG_END, FLAG_ERROR}, m \in {NoErr, "bye"} :
    (Idle /\ Live(k) /\ conn[k].channels[id] = 0)
      => Call(St, [f |-> "Connection_processSignal", k |-> k, id |-> id, flag |-> flag,
                   message |-> m]) = St

\* An END or ERROR of the server for an id whose channel is open and not
\* closing writes one SIGNAL END for the id and finalizes the channel, with
\* `close(false, message)` for END and `error`, `close(true)` for ERROR.
C11_ReplyAndFinalize ==
  \A k \in Conns, id \in Ids, flag \in {FLAG_END, FLAG_ERROR}, m \in {NoErr, "bye"} :
    LET c == conn[k].channels[id]
    IN (c # 0 /\ ~chan[c].closing /\ ~chan[c].destroyed /\ ServerSignal(k, id, flag, m))
         => /\ NewFrames(c) = <<SignalFrame(id, FLAG_END, c, 0) @@ [k |-> k]>>
            /\ \A d \in Chans \ {c} : wire'[d] = wire[d]
            /\ chan'[c].destroyed
            /\ \A i \in Ids : conn'[k].channels[i] = c => i # chan[c].id
            /\ events'[c] = events[c] \o
                 (IF flag = FLAG_END
                    THEN <<CloseEv(FALSE, m)>>
                    ELSE <<ErrorEv(IF m = NoErr THEN "ERR_UNKNOWN" ELSE m),
                           CloseEv(TRUE, NoErr)>>)
            /\ crashed' = NoErr

\* C11: the server's SIGNAL END or ERROR for the id of an open channel that is
\* not closing makes the client write exactly one SIGNAL END for that id and
\* finalize the channel (END: `close(false, message)`, no `error`; ERROR:
\* `error` with the payload text or ERR_UNKNOWN, then `close(true)`); with no
\* channel at the id nothing is written and nothing changes.
C11_ServerClose ==
  /\ []C11_NoChannelNoEffect
  /\ [][C11_ReplyAndFinalize]_vars

\* A channel the server closed with ERROR and an empty payload, and one it
\* closed with END and a message: each has the END reply as its last frame.
C11_Witness ==
  /\ \E c \in Chans :
       /\ events[c] = <<Ev("connect"), ErrorEv("ERR_UNKNOWN"), CloseEv(TRUE, NoErr)>>
       /\ wire[c] # <<>> /\ wire[c][Len(wire[c])].op = "SIGNAL"
  /\ \E c \in Chans :
       /\ events[c] = <<Ev("connect"), CloseEv(FALSE, "bye")>>
       /\ wire[c] # <<>> /\ wire[c][Len(wire[c])].op = "SIGNAL"

\* The SIGNAL END frames among a channel's frames
EndFrames(w) == {i \in 1..Len(w) : w[i].op = "SIGNAL" /\ w[i].flag = FLAG_END}

\* A closing or closed channel ignores end() and destroy(), and a channel has
\* at most one SIGNAL END among its frames.
C12_EndOnce ==
  \A c \in Chans :
    /\ (chan[c].closing \/ chan[c].destroyed)
         => /\ Call(St, [f |-> "Channel_end", c |-> c]) = St
            /\ Call(St, [f |-> "Channel_destroy", c |-> c, err |-> NoErr]) = St
    /\ Cardinality(EndFrames(wire[c])) <= 1

\* end() on an open channel writes one SIGNAL END and makes the channel
\* closing; the server's END or ERROR for a closing channel finalizes it with
\* `close(false)` and no reply.
C12_EndHandshake ==
  \A c \in Chans :
    /\ (/\ chan[c].id # 0 /\ ~chan[c].connecting /\ ~chan[c].closing /\ ~chan[c].destroyed
        /\ chan[c].conn # 0 /\ conn[chan[c].conn].sock
        /\ UserEnd(c))
         => /\ NewFrames(c) = <<SignalFrame(chan[c].id, FLAG_END, c, 0) @@ [k |-> chan[c].conn]>>
            /\ chan'[c].closing /\ ~chan'[c].destroyed
            /\ events'[c] = events[c]
    /\ \A k \in Conns, id \in Ids, flag \in {FLAG_END, FLAG_ERROR}, m \in {NoErr, "bye"} :
         (/\ conn[k].channels[id] = c /\ chan[c].closing /\ ~chan[c].destroyed
          /\ ServerSignal(k, id, flag, m))
           => /\ NewFrames(c) = <<>>
              /\ chan'[c].destroyed
              /\ events'[c] = events[c] \o <<CloseEv(FALSE, NoErr)>>

\* C12: end() on an open channel writes one SIGNAL END and marks the channel
\* closing; further end()/destroy() calls do nothing; the server's END or
\* ERROR for a closing channel finalizes it silently, without a reply; the
\* client writes at most one END frame per channel.
C12_ClientClose ==
  /\ []C12_EndOnce
  /\ [][C12_EndHandshake]_vars

\* The channels attached to a connection: created on it and not yet closed
Attached(c, k) == chan[c].conn = k /\ ~chan[c].destroyed

\* The bytes hold a length field below 7 at the (0-based) offset
BadAt(bytes, offset) ==
  /\ offset + 2 <= Len(bytes)
  /\ bytes[offset + 1] * 256 + bytes[offset + 2] < 7

C14_RoundTrip ==
  /\ ~codec.bad
  /\ Len(codec.out) <= 1
  /\ (codec.out # <<>> \/ (Delivered > 0 /\ codec.pending = <<>>))
       => /\ codec.out = <<codec.frame>>
          /\ codec.pending = <<>>
          /\ codec.buffer = <<>>

\* A DATA frame for id 2^32 - 1 with flag 7 and a payload of MAX_PAYLOAD_SIZE
\* bytes went through.
C14_Witness ==
  /\ codec.frame # <<>>
  /\ codec.frame.op = 2 /\ codec.frame.flag = 7
  /\ codec.frame.id = [hi |-> 2^16 - 1, lo |-> 2^16 - 1]
  /\ Len(codec.frame.data) = MAX_PAYLOAD_SIZE
  /\ codec.out = <<codec.frame>>

\* The connection is in the Disposed state: in Connection.disposed and not in
\* Connection.all, with the idle timeout armed
Disposed(k) == disposed = k /\ all # k /\ conn[k].timer

\* C15: between two turns of the event loop a connection that is not
\* destroyed and has its socket is Disposed exactly when chanRefCount and
\* reqRefCount are both zero (also right after a handshake that found all
\* requests cancelled), and a connection without a socket is never Disposed.
C15_DisposedIffUnused ==
  \A k \in Conns :
    (Idle /\ conn[k].alive) =>
      IF conn[k].sock
        THEN Disposed(k) <=> (conn[k].chanRefCount = 0 /\ conn[k].reqRefCount = 0)
        ELSE disposed # k /\ ~conn[k].timer

\* A connection whose only request was cancelled before the handshake
\* completed, Disposed after the handshake: nothing was ever written.
C15_Witness ==
  \E k \in Conns :
    /\ Idle /\ conn[k].alive /\ conn[k].sock /\ Disposed(k)
    /\ \A c \in Chans : wire[c] = <<>>
    /\ \E c \in Chans : events[c] = <<CloseEv(FALSE, NoErr)>>

\* The arguments the checks of write, dispatch and connect are run with
DataArgs == {Text(0), Text(1), Text(MAX_PAYLOAD_SIZE), Text(MAX_PAYLOAD_SIZE + 1)}
EncodingArgs == {Undefined, Str("utf8"), Str("latin5")}
PriorityArgs == {Undefined, Num(-1), Num(0), Num(1), Num(4), Num(5), Str("high")}
ModeArgs == {Undefined, Str("rw"), Str("x"), Num(3)}
UrlArgs ==
  {[t |-> "string", path |-> pth, query |-> FALSE] : pth \in {Str(""), Str("abc"), Num(1), Num(2)}}
    \cup {[t |-> "number", path |-> Str(""), query |-> FALSE]}

\* The call ended with an exception and changed nothing.
Rejected(T) == T.thrown # NoErr /\ [T EXCEPT !.thrown = NoErr] = St

\* C16: write and dispatch with a payload of more than MAX_PAYLOAD_SIZE bytes,
\* on a channel that is not writable or not emitable, with a priority outside
\* 1..4, with no data or with an unsupported encoding, and connect with a bad
\* mode or url, raise and leave the whole state as it was.
C16_ValidationLeavesState ==
  Running =>
    \A c \in Chans :
      /\ \A data \in DataArgs, encoding \in EncodingArgs, priority \in PriorityArgs :
           (\/ ~chan[c].writable
            \/ priority.t = "string"
            \/ priority.t = "number" /\ priority.v \notin 1..4
            \/ data.length = 0
            \/ data.length > MAX_PAYLOAD_SIZE
            \/ encoding = Str("latin5"))
             => Rejected(Call(St, [f |-> "write", c |-> c, data |-> data,
                                   encoding |-> encoding, priority |-> priority]))
      /\ \A data \in DataArgs, encoding \in EncodingArgs :
           (\/ ~chan[c].emitable
            \/ data.length = 0
            \/ data.length > MAX_PAYLOAD_SIZE
            \/ encoding = Str("latin5"))
             => Rejected(Call(St, [f |-> "dispatch", c |-> c, data |-> data,
                                   encoding |-> encoding]))
      /\ \A url \in UrlArgs, mode \in ModeArgs :
           (\/ url.t # "string"
            \/ url.path.t = "string" /\ url.path.s # ""
            \/ mode \in {Str("x"), Num(3)})
             => Rejected(Call(St, [f |-> "connect", c |-> c, url |-> url, mode |-> mode]))

\* The requests of the queue that starts at request h
RECURSIVE Queue(_)
Queue(h) == IF h = 0 THEN {} ELSE {h} \cup Queue(req[h].next)

\* Request r has gone on a socket
Transmitted(r) == \E i \in 1..Len(wire[r]) : wire[r][i].op = "OPEN"

\* cancel returns true exactly for a request that was not transmitted, and a
\* cancelled request is in no queue.
C17_CancelUnlinks ==
  /\ \A r \in Chans :
       (Running /\ req[r].conn # 0 /\ ~req[r].destroyed)
         => Call(St, [f |-> "OpenRequest_cancel", r |-> r]).ret = ~Transmitted(r)
  /\ \A r \in Chans, k \in Conns, id \in Ids :
       req[r].cancelled => r \notin Queue(conn[k].requests[id])

\* The server's response to an OPEN for id on connection k
OpenResponse(k, id) ==
  \E f \in BOOLEAN :
    \/ ServerOpen(k, id, FLAG_ALLOW, 0, f)
    \/ \E newid \in Ids : ServerOpen(k, id, FLAG_REDIRECT, newid, f)
    \/ \E text \in {NoErr, "NOT_ALLOWED"} : ServerOpen(k, id, FLAG_DENY, text, f)

\* A cancelled request is not written to the socket, and the request an OPEN
\* response is handed to is not a cancelled one.
C17_CancelledStaysOut ==
  /\ \A r \in Chans :
       req[r].cancelled =>
         \A i \in 1..Len(NewFrames(r)) : NewFrames(r)[i].op # "OPEN"
  /\ \A k \in Conns, id \in Ids :
       (OpenResponse(k, id) /\ conn[k].requests[id] # 0)
         => ~req[conn[k].requests[id]].cancelled

\* C17: an OpenRequest can be cancelled exactly while it has not been
\* transmitted; a request whose cancel returned true is out of the queue of
\* its id, is never written to the socket afterwards and gets no OPEN
\* response.
C17_CancelledIsGone ==
  /\ []C17_CancelUnlinks
  /\ [][C17_CancelledStaysOut]_vars

\* Channel c is opening and its OpenRequest has not been sent
OpeningUnsent(c) ==
  /\ chan[c].connecting /\ ~chan[c].closing /\ ~chan[c].destroyed
  /\ chan[c].request # 0
  /\ ~req[chan[c].request].sent /\ ~req[chan[c].request].destroyed

\* C18: destroy() and end() on an opening channel whose OpenRequest has not
\* been sent cancel the request and finalize the channel in the call: it is
\* destroyed and has emitted `close`, and nothing was written.
C18_CloseCancelsUnsent ==
  \A c \in Chans, close \in {"Channel_destroy", "Channel_end"} :
    (Running /\ OpeningUnsent(c)) =>
      LET T == Call(St, [f |-> close, c |-> c, err |-> NoErr])
      IN /\ T.req[chan[c].request].cancelled
         /\ T.chan[c].destroyed
         /\ T.events[c] = events[c] \o <<CloseEv(FALSE, NoErr)>>
         /\ T.wire = wire

\* Channel c was closed by the user while opening, after its OpenRequest was
\* transmitted; the request is the one the next OPEN response for its id is
\* handed to.
ClosingWhileOpening(c) ==
  /\ chan[c].connecting /\ chan[c].closing /\ ~chan[c].destroyed
  /\ chan[c].request = c /\ ~req[c].destroyed /\ Transmitted(c)
  /\ conn[req[c].conn].requests[req[c].id] = c

\* No END frame is written for a channel that waits for its OPEN response.
C19_NoEndWhileOpening ==
  \A c \in Chans : chan[c].connecting => EndFrames(wire[c]) = {}

\* ALLOW or REDIRECT for a channel closed while opening: the deferred END is
\* written with the resolved id, no event is emitted, the channel stays
\* closing and the process goes on.
C19_EndAfterResponse ==
  \A c \in Chans, newid \in Ids, f \in BOOLEAN :
    (/\ ClosingWhileOpening(c)
     /\ \/ newid = req[c].id /\ ServerOpen(req[c].conn, req[c].id, FLAG_ALLOW, 0, f)
        \/ ServerOpen(req[c].conn, req[c].id, FLAG_REDIRECT, newid, f))
      => /\ crashed' = NoErr
         /\ NewFrames(c) # <<>>
         /\ LET end == NewFrames(c)[Len(NewFrames(c))]
            IN end.op = "SIGNAL" /\ end.flag = FLAG_END /\ end.id = newid
         /\ events'[c] = events[c]
         /\ chan'[c].closing /\ ~chan'[c].destroyed
         /\ conn'[req[c].conn].channels[newid] = c

\* C19: destroy() or end() on an opening channel whose OpenRequest was
\* transmitted writes no END before the OPEN response; on ALLOW or REDIRECT
\* the deferred END is written with the resolved id, `connect` is not
\* emitted, and the channel stays closing, registered for the server's END.
C19_DeferredEnd ==
  /\ []C19_NoEndWhileOpening
  /\ [][C19_EndAfterResponse]_vars

\* C20: a DATA frame whose payload is no JSON text, for an open channel with
\* the json encoding, destroys that channel with `error` and then
\* `close(true)` and without a `data` event, and leaves the other channels
\* and the connection as they were.
C20_BadJsonDestroysChannel ==
  \A k \in Conns, id \in Ids :
    LET c == conn[k].channels[id]
        T == Call(St, [f |-> "sock_ondata", k |-> k, sockFlushed |-> FALSE,
                       chunk |-> DataFrame_toBuffer(Wide(id), 1, <<123>>)])
    IN (/\ Idle /\ Live(k) /\ conn[k].buffer = <<>>
        /\ c # 0 /\ chan[c].id = id /\ chan[c].readable /\ chan[c].encoding = "json")
       => /\ T.chan[c].destroyed
          /\ T.events[c] = events[c] \o <<ErrorEv("SyntaxError"), CloseEv(TRUE, NoErr)>>
          /\ \A d \in Chans \ {c} : T.chan[d] = chan[d] /\ T.events[d] = events[d]
          /\ T.conn[k].alive /\ T.conn[k].sock
          /\ T.crashed = NoErr

\* C21: for every id in a connection's `requests` map, requests[id] is the
\* head of the queue of that id: no request reachable from the map is
\* destroyed, and only the head may have been sent.
C21_MapHoldsLiveHead ==
  \A k \in Conns, id \in Ids :
    LET h == conn[k].requests[id]
    IN (Running /\ conn[k].alive /\ h # 0) =>
         /\ \A r \in Queue(h) : ~req[r].destroyed
         /\ \A r \in Queue(h) \ {h} : ~req[r].sent

\* The requests queued behind request h that are not destroyed
Successors(h) == {s \in Queue(req[h].next) : ~req[s].destroyed}

\* C22: an OPEN response ALLOW to the head request of id X opens the head's
\* channel with id X and destroys every request queued behind it with "Channel
\* is already open": the channel of each emits `error` then `close(true)`, none
\* of them was sent or is opened, and reqRefCount goes down by the number of
\* requests destroyed.
C22_AllowDestroysSuccessors ==
  \A k \in Conns, id \in Ids, f \in BOOLEAN :
    LET h == conn[k].requests[id]
        T == Call([St EXCEPT !.unanswered[k][id] = @ - 1],
                  [f |-> "Connection_processOpen", k |-> k, id |-> id,
                   flag |-> FLAG_ALLOW, payload |-> 0, sockFlushed |-> f])
    IN (/\ Idle /\ Live(k) /\ unanswered[k][id] > 0
        /\ h # 0 /\ req[h].sent /\ ~req[h].destroyed)
         => /\ Ok(T)
            /\ T.chan[h].id = id /\ T.conn[k].channels[id] = h
            /\ Len(T.events[h]) > Len(events[h])
            /\ T.events[h][Len(events[h]) + 1] = Ev("connect")
            /\ \A s \in Successors(h) :
                 /\ T.req[s].destroyed /\ T.chan[s].destroyed
                 /\ T.events[s] = events[s] \o <<ErrorEv("Channel is already open"),
                                                 CloseEv(TRUE, NoErr)>>
                 /\ ~req[s].sent /\ ~Transmitted(s)
                 /\ \A i \in Ids : T.conn[k].channels[i] # s
            /\ T.conn[k].reqRefCount
                 = conn[k].reqRefCount - (Cardinality(Successors(h)) + 1)

\* C23: an OPEN response REDIRECT whose payload is not 4 bytes long destroys
\* the connection with "Bad open resp": every channel and every request of the
\* connection, the channel of the request that got the response included, is
\* destroyed, and every such channel emits `error` then `close(true)`.
C23_BadRedirectClosesAll ==
  \A k \in Conns, id \in Ids, f \in BOOLEAN :
    LET h == conn[k].requests[id]
        T == Call([St EXCEPT !.unanswered[k][id] = @ - 1],
                  [f |-> "Connection_processOpen", k |-> k, id |-> id,
                   flag |-> FLAG_REDIRECT, payload |-> 0, sockFlushed |-> f])
    IN (/\ Idle /\ Live(k) /\ unanswered[k][id] > 0
        /\ h # 0 /\ req[h].sent /\ ~req[h].destroyed)
         => /\ Ok(T) /\ ~T.conn[k].alive /\ ~T.conn[k].sock
            /\ \A c \in Chans :
                 (chan[c].conn = k /\ ~chan[c].destroyed)
                   => /\ T.chan[c].destroyed
                      /\ T.events[c] = events[c] \o <<ErrorEv("Bad open resp"),
                                                      CloseEv(TRUE, NoErr)>>
            /\ \A r \in Chans : req[r].conn = k => T.req[r].destroyed

\* The bytes of the stream the parser has got
Received == Len(StreamBytes(codec.stream)) - Len(codec.pending)

\* The frames of the stream whose last byte the parser has got
RECURSIVE Complete(_)
Complete(n) ==
  IF n > 0 /\ Len(StreamBytes(SubSeq(codec.stream, 1, n))) > Received
    THEN Complete(n - 1)
    ELSE n

\* The frames of a sequence that are dispatched: all but the NOOPs
RECURSIVE Dispatched(_)
Dispatched(frames) ==
  IF frames = <<>> THEN <<>>
  ELSE (IF Head(frames).op # 0 THEN <<Head(frames)>> ELSE <<>>)
       \o Dispatched(Tail(frames))

\* C24: reassembly is independent of chunking: however a stream of well-formed
\* frames is cut into non-empty chunks, the parser has dispatched, after each
\* chunk, exactly the frames whose last byte it has got, each once and in
\* order with its op, id, flag and payload, and it keeps the bytes of the
\* frame that is not complete; at the end that is what it dispatches when the
\* whole stream arrives in one chunk.
C24_ChunkingIndependent ==
  LET bytes == StreamBytes(codec.stream)
      done == SubSeq(codec.stream, 1, Complete(Len(codec.stream)))
  IN /\ ~codec.bad
     /\ codec.out = Dispatched(done)
     /\ codec.buffer = SubSeq(bytes, Len(StreamBytes(done)) + 1, Received)
     /\ codec.pending = <<>>
          => codec.out = codecLoop([NoCodec EXCEPT !.stream = codec.stream],
                                   bytes, 0).out

\* A stream of two frames went through in more than three chunks, the last of
\* them a frame with a payload.
C24_Witness ==
  /\ codec.stream # <<>>
  /\ codec.pending = <<>>
  /\ codec.chunks > 3
  /\ codec.stream[Len(codec.stream)].op = 2
  /\ codec.stream[Len(codec.stream)].data # <<>>
  /\ codec.out = codec.stream

\* The first frame is dispatched and one byte of the length of the second
\* is kept.
C24_SplitInLength == Len(codec.out) = 1 /\ Len(codec.buffer) = 1

\* C25: with followRedirects on, the upgrade after up to MAX_REDIRECTS redirect
\* responses yields the socket, the handshake fails with "Max HTTP
\* redirections reached" only after more than MAX_REDIRECTS redirect
\* responses, and the callback is called once: never twice, and once when no
\* request is out.
C25_RedirectLimit ==
  /\ Len(getsock.outcomes) <= 1
  /\ getsock.requesting <=> getsock.outcomes = <<>>
  /\ (getsock.followRedirects /\ getsock.requesting /\ getsock.hops <= MAX_REDIRECTS)
       => req_onupgrade([getsock EXCEPT !.requesting = FALSE], "winksock/1").outcomes
            = <<[err |-> NoErr, sock |-> "open"]>>
  /\ \A i \in 1..Len(getsock.outcomes) :
       (getsock.followRedirects
        /\ getsock.outcomes[i].err = "Max HTTP redirections reached")
         => getsock.hops > MAX_REDIRECTS

\* The connections that are not destroyed
LiveConns == {k \in Conns : conn[k].alive}

\* There is at most one connection that is not destroyed, it is the one in
\* Connection.all or Connection.disposed, and getConnection returns it, taking
\* it out of Connection.disposed and disarming its timeout; getConnection
\* makes a new connection only when there is none.  The timeout is armed on
\* no connection but the disposed one.
C26_OneConnection ==
  LET T == Connection_getConnection(St)
  IN Running =>
       /\ Cardinality(LiveConns) <= 1
       /\ \A k \in LiveConns :
            /\ (all = k /\ disposed = 0) \/ (all = 0 /\ disposed = k)
            /\ conn[k].timer => disposed = k
            /\ T.ret = k /\ T.nconn = nconn /\ T.conn[k].alive
            /\ T.all = k /\ T.disposed = 0 /\ ~T.conn[k].timer
       /\ (LiveConns = {} /\ nconn < MaxConns)
            => /\ all = 0 /\ disposed = 0
               /\ T.ret = nconn + 1 /\ T.nconn = nconn + 1 /\ T.all = nconn + 1

\* The timeout fires on a disposed connection only, and destroys it.
C26_TimeoutDestroysDisposed ==
  \A k \in Conns :
    SockTimeout(k) => /\ disposed = k /\ all = 0
                      /\ ~conn'[k].alive /\ ~conn'[k].sock
                      /\ disposed' = 0 /\ all' = 0

\* C26: getConnection returns the connection of the authority whenever one is
\* live or disposed and creates one only otherwise, so there is at most one
\* connection that is not destroyed; the 200 ms timeout of a disposed
\* connection that was revived does not destroy it, and that of a disposed
\* connection that was not revived destroys it.
C26_ReuseOrDispose ==
  /\ []C26_OneConnection
  /\ [][C26_TimeoutDestroysDisposed]_vars

\* A disposed connection has just been revived: its only channel was opened
\* and closed, and the second channel's connect found the connection with its
\* socket and no channel or request; the request is about to be sent on it.
C26_Witness ==
  \E k \in Conns :
    /\ conn[k].alive /\ conn[k].sock /\ all = k /\ disposed = 0 /\ ~conn[k].timer
    /\ conn[k].chanRefCount = 0 /\ conn[k].reqRefCount = 1
    /\ ticks = <<[kind |-> "send", who |-> 2]>>
    /\ req[2].conn = k /\ ~req[2].sent /\ chan[2].conn = k
    /\ chan[1].destroyed
    /\ Len(events[1]) = 2
    /\ events[1][1] = Ev("connect") /\ events[1][2].ev = "close"

\* C27: on every connection that is not destroyed chanRefCount is the number
\* of channels registered in its `channels` map and reqRefCount the number of
\* its OpenRequests that are not destroyed.
C27_RefCounts ==
  \A k \in Conns :
    (Running /\ conn[k].alive) =>
      /\ conn[k].chanRefCount = Cardinality({i \in Ids : conn[k].channels[i] # 0})
      /\ conn[k].reqRefCount
           = Cardinality({r \in Chans : req[r].conn = k /\ ~req[r].destroyed})

\* C28: a destroyed channel is not in the connecting state and holds no write
\* queue: once a channel is destroyed (it has emitted `close`) _connecting is
\* false, the queue is empty, readyState is 'closed', and connect() on it is
\* not rejected with "Already connecting".
C28_DestroyedIsClosed ==
  \A c \in Chans :
    (Running /\ chan[c].destroyed) =>
      /\ events[c] # <<>> /\ events[c][Len(events[c])].ev = "close"
      /\ ~chan[c].connecting
      /\ chan[c].writeQueue = <<>>
      /\ readyState(St, c) = "closed"
      /\ connect(St, c, [t |-> "string", path |-> Num(1), query |-> FALSE],
                 Undefined).thrown # "Already connecting"

\* C29: a channel that a `close` listener connects while the connection of
\* the closed channel is being destroyed is not attached to that connection:
\* in the state the listener's turn leaves it is attached to a connection that
\* is not destroyed, with its OpenRequest not destroyed and in the queue of
\* its id, so that it can still emit `connect` or `close`.
C29_ReopenedOnLiveConnection ==
  \A c, d \in Chans :
    (/\ chan[c].onclose = d /\ ~chan[c].destroyed /\ chan'[c].destroyed
     /\ chan[c].conn # 0 /\ conn[chan[c].conn].alive /\ ~conn'[chan[c].conn].alive
     /\ crashed' = NoErr)
      => /\ chan'[d].connecting /\ ~chan'[d].destroyed
         /\ events'[d] = <<>>
         /\ chan'[d].conn # 0
         /\ conn'[chan'[d].conn].alive
         /\ req'[d].conn = chan'[d].conn /\ ~req'[d].destroyed
         /\ \E h \in Chans :
              /\ conn'[chan'[d].conn].requests[req'[d].id] = h
              /\ d \in {h, req'[h].next}

C29_NoReopenOnDyingConnection == [][C29_ReopenedOnLiveConnection]_vars
====
